---- MODULE Spec2Model ----
(***************************************************************************)
(* up-to-actual: synchronisation of settled Up Bank transactions into an   *)
(* Actual Budget instance.  The module models the retry orchestrator       *)
(* (main), one sync attempt (executeSyncAttempt), the destination client   *)
(* (connect / importTransactions / disconnect), the schema transformer,    *)
(* the backoff calculator and the webhook notifier.                        *)
(***************************************************************************)
EXTENDS Integers, Sequences, FiniteSets, TLC

(***************************************************************************)
(* Bounds of the model.                                                    *)
(***************************************************************************)
\* largest value of MAX_RETRIES tried in the environment
MaxEnvRetries == 3
\* number of well-formed transactions the provider can report
NumTxns == 2
\* number of consecutive runs of the process against the same budget
MaxRuns == 2
\* largest attempt index given to getBackoffDelay on its own
MaxIdx == 6
\* largest number of pages the provider splits a result set into
MaxPages == 3

(***************************************************************************)
(* Values.                                                                 *)
(***************************************************************************)
\* JavaScript null / undefined, for string-valued fields
Null == "<null>"

\* no error (lastError = null, no pending exception)
NoError == [step |-> "none", message |-> Null]

Error(step, message) == [step |-> step, message |-> message]

(***************************************************************************)
(* config.js                                                               *)
(***************************************************************************)
\* the values MAX_RETRIES takes in the environment
MaxRetriesEnv == {"unset", "abc"} \cup {ToString(n) : n \in (-1)..MaxEnvRetries}

\* parseInt(s, 10): a record, because NaN is not an integer
parseInt(s) ==
  IF \E n \in (-1)..MaxEnvRetries : ToString(n) = s
    THEN [nan |-> FALSE, val |-> CHOOSE n \in (-1)..MaxEnvRetries : ToString(n) = s]
    ELSE [nan |-> TRUE, val |-> 0]

\* x || d for a number x: NaN and 0 are falsy
OrDefault(x, d) == IF x.nan \/ x.val = 0 THEN d ELSE x.val

DefaultMaxRetries == 4

\* config.sync.maxRetries
ConfigMaxRetries(env) == OrDefault(parseInt(env), DefaultMaxRetries)

(***************************************************************************)
(* backoff.js                                                              *)
(***************************************************************************)
RECURSIVE Pow(_, _)
Pow(b, e) == IF e = 0 THEN 1 ELSE b * Pow(b, e - 1)

baseDelayMs == 5 * 60 * 1000

getBackoffDelay_double(attempt) == baseDelayMs * Pow(2, attempt)

getBackoffDelay(attempt) == baseDelayMs * Pow(3, attempt)

(***************************************************************************)
(* Source transactions (the provider's records).                           *)
(***************************************************************************)
\* "2026-01-26T04:51:32+11:00" as a sequence of characters
Stamp1 ==
  << "2","0","2","6","-","0","1","-","2","6","T","0","4",":","5","1",":",
     "3","2","+","1","1",":","0","0" >>

\* "2025-12-31T23:00:00-05:00" as a sequence of characters
Stamp2 ==
  << "2","0","2","5","-","1","2","-","3","1","T","2","3",":","0","0",":",
     "0","0","-","0","5",":","0","0" >>

\* the i-th well-formed record of the provider; ids are stable and distinct
SourceTxn(i) ==
  [ id |-> "txn_" \o ToString(i),
    wellFormed |-> TRUE,
    description |-> IF i % 2 = 1 THEN "Woolworths" ELSE "Salary",
    valueInBaseUnits |-> IF i % 2 = 1 THEN 0 - 5998 ELSE 250000,
    value |-> IF i % 2 = 1 THEN "-59.98" ELSE "2500.00",
    createdAt |-> IF i % 2 = 1 THEN Stamp1 ELSE Stamp2,
    message |-> IF i % 2 = 1 THEN Null ELSE "Pay day" ]

\* a record without its attributes object (malformed upstream data)
MalformedTxn ==
  [ id |-> "txn_bad", wellFormed |-> FALSE, description |-> Null,
    valueInBaseUnits |-> 0, value |-> Null, createdAt |-> << >>,
    message |-> Null ]

\* the provider's records, in the order the provider reports them
Pool == [i \in 1..NumTxns |-> SourceTxn(i)] \o << MalformedTxn >>

\* the records of Pool at the positions in sel, in provider order
RECURSIVE Window(_, _)
Window(sel, i) ==
  IF i > Len(Pool) THEN << >>
  ELSE (IF i \in sel THEN << Pool[i] >> ELSE << >>) \o Window(sel, i + 1)

\* every response the provider can give to one fetch
Windows == { Window(sel, 1) : sel \in SUBSET (1..Len(Pool)) }

(***************************************************************************)
(* transform.js                                                            *)
(***************************************************************************)
extractDate_eleven(isoDatetime) == SubSeq(isoDatetime, 1, 11)

extractDate(isoDatetime) == SubSeq(isoDatetime, 1, 10)

transformTransaction_payeeAsId(upTransaction) ==
  [ imported_id |-> upTransaction.description,
    payee_name |-> upTransaction.description,
    amount |-> upTransaction.valueInBaseUnits,
    date |-> extractDate(upTransaction.createdAt),
    notes |-> IF upTransaction.message \in {Null, ""} THEN Null
              ELSE upTransaction.message,
    cleared |-> TRUE ]

transformTransaction_amountFromValue(upTransaction) ==
  [ imported_id |-> upTransaction.id,
    payee_name |-> upTransaction.description,
    amount |-> (IF upTransaction.value = "3500.00" THEN 3500 ELSE 0) * 100,
    date |-> extractDate(upTransaction.createdAt),
    notes |-> IF upTransaction.message \in {Null, ""} THEN Null
              ELSE upTransaction.message,
    cleared |-> TRUE ]

transformTransaction_rawMessage(upTransaction) ==
  [ imported_id |-> upTransaction.id,
    payee_name |-> upTransaction.description,
    amount |-> upTransaction.valueInBaseUnits,
    date |-> extractDate(upTransaction.createdAt),
    notes |-> upTransaction.message,
    cleared |-> TRUE ]

transformTransaction(upTransaction) ==
  [ imported_id |-> upTransaction.id,
    payee_name |-> upTransaction.description,
    amount |-> upTransaction.valueInBaseUnits,
    date |-> extractDate(upTransaction.createdAt),
    notes |-> IF upTransaction.message \in {Null, ""} THEN Null
              ELSE upTransaction.message,
    cleared |-> TRUE ]

\* destructuring the attributes of a record that has none throws a TypeError
TransformThrows(upTransactions) ==
  \E i \in DOMAIN upTransactions : ~upTransactions[i].wellFormed

transformTransactions_outgoingOnly(upTransactions) ==
  SelectSeq([i \in DOMAIN upTransactions |-> transformTransaction(upTransactions[i])],
            LAMBDA t : t.amount < 0)

transformTransactions(upTransactions) ==
  [i \in DOMAIN upTransactions |-> transformTransaction(upTransactions[i])]

(***************************************************************************)
(* upbank.js: the errors of ping and fetchTransactions                     *)
(***************************************************************************)
\* non-success statuses the provider answers with
HttpStatuses == {401, 429, 500}

\* body.errors[0].detail, Null when the body carries none
Details == {Null, "Not authorized"}

DetailOrUnknown_raw(detail) == detail

\* body.errors?.[0]?.detail || 'Unknown error'
DetailOrUnknown(detail) == IF detail \in {Null, ""} THEN "Unknown error" ELSE detail

PingError(status, detail) ==
  Error("ping", "Up Bank API ping failed: HTTP " \o ToString(status) \o " - "
                  \o DetailOrUnknown(detail))

FetchError(status, detail) ==
  IF status = 429
    THEN Error("fetch", "Up Bank API rate limited (HTTP 429). Will retry with backoff.")
    ELSE Error("fetch", "Up Bank API error: HTTP " \o ToString(status) \o " - "
                          \o DetailOrUnknown(detail))

\* the global fetch rejected (DNS, connection reset, timeout)
NetworkError(step) == Error(step, "fetch failed")

PingErrors ==
  { PingError(s, d) : s \in HttpStatuses, d \in Details } \cup { NetworkError("ping") }

FetchErrors ==
  { FetchError(s, d) : s \in HttpStatuses, d \in Details } \cup { NetworkError("fetch") }

(***************************************************************************)
(* actual.js and the destination behind @actual-app/api                    *)
(***************************************************************************)
EmptyResult == [errors |-> << >>, added |-> << >>, updated |-> << >>]

HasImportedId(budget, id) ==
  id # Null /\ \E i \in DOMAIN budget : budget[i].imported_id = id

\* the entry of result.errors for a record the engine could not import
ImportErrorEntry(t) == [imported_id |-> t.imported_id, message |-> "Invalid transaction"]

\* the sets of records of a batch the engine may fail to import
Rejections(transactions) ==
  SUBSET {transactions[i].imported_id : i \in DOMAIN transactions}

\* api.importTransactions: the reconciliation engine reports a record it
\* cannot import in result.errors, and adds any other record unless one with
\* the same imported_id is already in the budget
RECURSIVE ApiImportTransactions(_, _, _, _)
ApiImportTransactions(budget, transactions, rejected, result) ==
  IF transactions = << >> THEN [budget |-> budget, result |-> result]
  ELSE LET t == Head(transactions) IN
       IF t.imported_id \in rejected
         THEN ApiImportTransactions(
                budget, Tail(transactions), rejected,
                [result EXCEPT !.errors = Append(@, ImportErrorEntry(t))])
       ELSE IF HasImportedId(budget, t.imported_id)
         THEN ApiImportTransactions(budget, Tail(transactions), rejected, result)
         ELSE ApiImportTransactions(
                Append(budget, t), Tail(transactions), rejected,
                [result EXCEPT !.added = Append(@, t.imported_id)])

\* api.addTransactions: a raw insert with no deduplication
ApiAddTransactions(budget, transactions) ==
  [ budget |-> budget \o transactions,
    result |-> [EmptyResult EXCEPT
                  !.added = [i \in DOMAIN transactions |-> transactions[i].imported_id]] ]

importTransactions_rawAdd(budget, transactions, rejected) ==
  IF Len(transactions) = 0
    THEN [budget |-> budget, result |-> EmptyResult]
    ELSE ApiAddTransactions(budget, transactions)

\* importTransactions(transactions) when the engine fails to import the
\* records in rejected: the result of the engine is returned as it is
importTransactions(budget, transactions, rejected) ==
  IF Len(transactions) = 0
    THEN [budget |-> budget, result |-> EmptyResult]
    ELSE ApiImportTransactions(budget, transactions, rejected, EmptyResult)

ImportErrorsThrow_whenAny(res) == Len(res.errors) > 0

\* if (result.errors && result.errors.length > 0) logger.warn(...): per-record
\* errors are logged and never raised
ImportErrorsThrow(res) == FALSE

(***************************************************************************)
(* notify.js                                                               *)
(***************************************************************************)
NtfyUrl == "https://ntfy.sh/up-to-actual"
DiscordUrl == "https://discord.com/api/webhooks/1/abc"

\* the values WEBHOOK_URL takes; config.webhookUrl is Null when it is unset
WebhookUrls == {Null, NtfyUrl, DiscordUrl}

isDiscordWebhook(url) == url = DiscordUrl

\* what happens to the POST: the response is ok, is not ok, or fetch rejects
PostOutcomes == {"ok", "http_error", "network_error"}

Deliveries_unconditional(url) == PostOutcomes

\* sendNotification: the outcomes it can have for a configured url; it
\* returns normally in each of them
Deliveries(url) == IF url = Null THEN {"none"} ELSE PostOutcomes

SendThrows_onReject(d) == d = "network_error"

\* sendNotification: whether an outcome of the delivery leaves it as an
\* exception; the try / catch around the POST lets none out
SendThrows(d) == FALSE

ContentType(url) == IF isDiscordWebhook(url) THEN "application/json" ELSE "text/plain"

(***************************************************************************)
(* State.                                                                  *)
(***************************************************************************)
VARIABLES
  maxRetriesEnv,      \* process.env.MAX_RETRIES
  webhookUrl,         \* config.webhookUrl
  pc,                 \* position of the single thread of control
  maxAttempts,        \* main: const maxAttempts
  attempt,            \* main: loop variable
  lastError,          \* main: let lastError
  upTransactions,     \* executeSyncAttempt: fetched records
  actualTransactions, \* executeSyncAttempt: transformed records
  result,             \* executeSyncAttempt: import result
  fetchedCount,       \* value returned by executeSyncAttempt
  pendingError,       \* exception of the try block while finally runs
  thrown,             \* exception raised by the most recent attempt
  session,            \* destination session: Disconnected / Opening / Connected
  local,              \* budget in the local working copy (dataDir)
  remote,             \* budget on the Actual server
  dataDirExists,      \* fs.existsSync(config.actual.dataDir)
  attemptsStarted,    \* executeSyncAttempt calls made by this run
  sleeps,             \* sleep(ms) calls of this run: [after, ms]
  notifications,      \* notifySuccess / notifyFailure calls of this run
  posts,              \* webhook POSTs issued by this run
  exitCode,           \* process.exit code, NoExit while running
  calls,              \* operations invoked by the current attempt, in order
  remoteAtStart,      \* server budget when the current attempt began
  runs,               \* runs of the process so far
  arg,                \* input of the next call of a pure function on its own
  hist,               \* calls of a pure function on its own: [arg, ret]
  retryCount,         \* timer: retries the host has made of the current tick
  alerts,             \* timer: failure alerts of the current tick: [retry, attempts]
  pages,              \* Up Bank: data arrays of the pages of the result set
  lastLink,           \* Up Bank: links.next of the last page, null or absent
  url,                \* fetchTransactions: page the cursor points at, 0 for null
  allTransactions,    \* fetchTransactions: records accumulated so far
  pageCount,          \* fetchTransactions: let pageCount
  inFlight,           \* page requests issued and not yet answered
  requests,           \* pages requested by fetchTransactions, in order
  apiResult           \* what api.importTransactions resolved with in this attempt

cfgVars == << maxRetriesEnv, webhookUrl >>
mainVars == << maxAttempts, attempt, lastError >>
attemptVars == << upTransactions, actualTransactions, result, fetchedCount,
                  pendingError >>
destVars == << session, local, remote, dataDirExists >>
logVars == << attemptsStarted, sleeps, notifications, posts, exitCode >>
fnVars == << arg, hist >>
timerVars == << retryCount, alerts >>
pageVars == << pages, lastLink, url, allTransactions, pageCount, inFlight,
              requests >>

vars == << maxRetriesEnv, webhookUrl, pc, maxAttempts, attempt, lastError,
           upTransactions, actualTransactions, result, fetchedCount,
           pendingError, thrown, session, local, remote, dataDirExists,
           attemptsStarted, sleeps, notifications, posts, exitCode, calls,
           remoteAtStart, runs, arg, hist, retryCount, alerts, pages, lastLink, url,
           allTransactions, pageCount, inFlight, requests, apiResult >>

NoExit == 0 - 1

\* state of a process that has just been started
Fresh ==
  /\ pc = "start"
  /\ maxAttempts = 0
  /\ attempt = 0
  /\ lastError = NoError
  /\ upTransactions = << >>
  /\ actualTransactions = << >>
  /\ result = EmptyResult
  /\ fetchedCount = 0
  /\ pendingError = NoError
  /\ thrown = NoError
  /\ attemptsStarted = 0
  /\ sleeps = << >>
  /\ notifications = << >>
  /\ posts = << >>
  /\ exitCode = NoExit
  /\ calls = << >>

\* no tick of the timer and no paginated fetch is under way
Idle ==
  /\ retryCount = 0
  /\ alerts = << >>
  /\ pages = << >>
  /\ lastLink = "null"
  /\ url = 0
  /\ allTransactions = << >>
  /\ pageCount = 0
  /\ inFlight = 0
  /\ requests = << >>
  /\ apiResult = EmptyResult

Init ==
  /\ maxRetriesEnv \in MaxRetriesEnv
  /\ webhookUrl \in WebhookUrls
  /\ Fresh
  /\ session = "Disconnected"
  /\ local = << >>
  /\ remote = << >>
  /\ dataDirExists \in BOOLEAN
  /\ remoteAtStart = << >>
  /\ runs = 1
  /\ arg = 0
  /\ hist = << >>
  /\ Idle

(***************************************************************************)
(* index.js: the decisions of main                                         *)
(***************************************************************************)
\* for (let attempt = 1; attempt <= maxAttempts; attempt++)
LoopContinues(a, max) == a <= max

ShouldSleep_afterLast(a, max) == a <= max

ShouldSleep_never(a, max) == FALSE

\* if (attempt < maxAttempts)
ShouldSleep(a, max) == a < max

BackoffIndex_oneBased(a) == a

\* getBackoffDelay(attempt - 1)
BackoffIndex(a) == a - 1

RecordError_keepFirst(prev, err) == IF prev = NoError THEN err ELSE prev

\* lastError = error
RecordError(prev, err) == err

\* lastError?.message || 'Unknown error'
FailureMessage(err) ==
  IF err = NoError \/ err.message \in {Null, ""} THEN "Unknown error" ELSE err.message

AfterSuccess_noReturn == "loop"

\* return after notifySuccess
AfterSuccess == "returned"

(***************************************************************************)
(* sync.js: the decisions of executeSyncAttempt                            *)
(***************************************************************************)
IsEmptyFetch_never(txns) == FALSE

\* if (upTransactions.length === 0)
IsEmptyFetch(txns) == Len(txns) = 0

AfterImportThrows_noFinally == "failed"

\* try { import } finally { disconnect }: where control goes when import throws
AfterImportThrows == "disconnect"

AfterShutdownThrows_swallowed == "succeeded"

\* await disconnect() in the finally block throws: nothing catches it
\* inside executeSyncAttempt
AfterShutdownThrows == "failed"

AfterConnectThrows_swallowed == "import"

AfterConnectThrows_insideTry == "disconnect"

\* await connect() stands before the try block: its exception leaves the attempt
AfterConnectThrows == "failed"

Notification(kind, errorMessage, attempts, res, fetched, delivery) ==
  [ kind |-> kind, errorMessage |-> errorMessage, attempts |-> attempts,
    result |-> res, fetchedCount |-> fetched, attempt |-> attempt,
    delivery |-> delivery ]

\* the POST sendNotification issues for a message of the given kind
Post(kind) == [url |-> webhookUrl, contentType |-> ContentType(webhookUrl), kind |-> kind]

\* sendNotification(message) with outcome d of the delivery
SendNotification(kind, d) ==
  posts' = IF d = "none" THEN posts ELSE Append(posts, Post(kind))

\* an exception leaves executeSyncAttempt
Throw(err) ==
  /\ thrown' = err
  /\ pc' = "failed"

\* an exception goes where the enclosing code sends it: out of
\* executeSyncAttempt, or into a finally block that holds it while it runs
RaiseTo(target, err) ==
  /\ pc' = target
  /\ IF target = "failed"
       THEN thrown' = err /\ UNCHANGED pendingError
       ELSE pendingError' = err /\ UNCHANGED thrown

(***************************************************************************)
(* main                                                                    *)
(***************************************************************************)
MainStart ==
  /\ pc = "start"
  /\ maxAttempts' = ConfigMaxRetries(maxRetriesEnv)
  /\ lastError' = NoError
  /\ attempt' = 1
  /\ pc' = "loop"
  /\ UNCHANGED << cfgVars, attemptVars, thrown, destVars, logVars, calls,
                  remoteAtStart, runs, fnVars, timerVars, pageVars, apiResult >>

\* loop test; a passing test calls executeSyncAttempt
LoopCheck ==
  /\ pc = "loop"
  /\ IF LoopContinues(attempt, maxAttempts)
       THEN /\ pc' = "ping"
            /\ attemptsStarted' = attemptsStarted + 1
            /\ upTransactions' = << >>
            /\ actualTransactions' = << >>
            /\ result' = EmptyResult
            /\ fetchedCount' = 0
            /\ pendingError' = NoError
            /\ thrown' = NoError
            /\ calls' = << >>
            /\ remoteAtStart' = remote
            /\ apiResult' = EmptyResult
       ELSE /\ pc' = "exhausted"
            /\ UNCHANGED << attemptsStarted, attemptVars, thrown, calls,
                            remoteAtStart, apiResult >>
  /\ UNCHANGED << cfgVars, mainVars, destVars, sleeps, notifications, posts,
                  exitCode, runs, fnVars, timerVars, pageVars >>

\* catch (error) { lastError = error; ... }
Catch ==
  /\ pc = "failed"
  /\ lastError' = RecordError(lastError, thrown)
  /\ IF ShouldSleep(attempt, maxAttempts)
       THEN pc' = "sleep" /\ attempt' = attempt
       ELSE pc' = "loop" /\ attempt' = attempt + 1
  /\ UNCHANGED << cfgVars, maxAttempts, attemptVars, thrown, destVars, logVars,
                  calls, remoteAtStart, runs, fnVars, timerVars, pageVars, apiResult >>

\* await sleep(delayMs), then the loop's attempt++
Sleep ==
  /\ pc = "sleep"
  /\ sleeps' = Append(sleeps, [after |-> attempt,
                               ms |-> getBackoffDelay(BackoffIndex(attempt))])
  /\ attempt' = attempt + 1
  /\ pc' = "loop"
  /\ UNCHANGED << cfgVars, maxAttempts, lastError, attemptVars, thrown, destVars,
                  attemptsStarted, notifications, posts, exitCode, calls,
                  remoteAtStart, runs, fnVars, timerVars, pageVars, apiResult >>

\* await notifySuccess(result, fetchedCount, durationMs); return.  The call
\* stands inside the try block of the loop.
NotifySuccess ==
  /\ pc = "succeeded"
  /\ \E d \in Deliveries(webhookUrl) :
       /\ notifications' = Append(notifications,
            Notification("success", Null, 0, result, fetchedCount, d))
       /\ SendNotification("success", d)
       /\ IF SendThrows(d)
            THEN Throw(NetworkError("notify"))
            ELSE pc' = AfterSuccess /\ UNCHANGED thrown
  /\ attempt' = IF pc' = "loop" THEN attempt + 1 ELSE attempt
  /\ UNCHANGED << cfgVars, maxAttempts, lastError, attemptVars, destVars,
                  attemptsStarted, sleeps, exitCode, calls, remoteAtStart, runs, fnVars, timerVars, pageVars, apiResult >>

\* await notifyFailure(lastError?.message || 'Unknown error', maxAttempts)
NotifyFailure ==
  /\ pc = "exhausted"
  /\ \E d \in Deliveries(webhookUrl) :
       /\ notifications' = Append(notifications,
            Notification("failure", FailureMessage(lastError), maxAttempts,
                         EmptyResult, 0, d))
       /\ SendNotification("failure", d)
  /\ pc' = "exit"
  /\ UNCHANGED << cfgVars, mainVars, attemptVars, thrown, destVars,
                  attemptsStarted, sleeps, exitCode, calls, remoteAtStart, runs, fnVars, timerVars, pageVars, apiResult >>

\* process.exit(1)
Exit ==
  /\ pc = "exit"
  /\ exitCode' = 1
  /\ pc' = "exited"
  /\ UNCHANGED << cfgVars, mainVars, attemptVars, thrown, destVars,
                  attemptsStarted, sleeps, notifications, posts, calls,
                  remoteAtStart, runs, fnVars, timerVars, pageVars, apiResult >>

(***************************************************************************)
(* executeSyncAttempt                                                      *)
(***************************************************************************)
TransformError ==
  Error("transform", "Cannot read properties of undefined (reading 'description')")
MkdirError == Error("mkdir", "EACCES: permission denied, mkdir")
InitError == Error("connect", "Could not reach the Actual server")
DownloadError == Error("connect", "Could not download the budget file")
ImportError == Error("import", "The import was rejected by the budget")
ShutdownError == Error("disconnect", "Could not sync the budget to the server")

\* Step 1: await ping()
Ping ==
  /\ pc = "ping"
  /\ calls' = Append(calls, "ping")
  /\ \/ pc' = "fetch" /\ UNCHANGED thrown
     \/ \E e \in PingErrors : Throw(e)
  /\ UNCHANGED << cfgVars, mainVars, attemptVars, destVars, logVars,
                  remoteAtStart, runs, fnVars, timerVars, pageVars, apiResult >>

\* Step 2: await fetchTransactions(), and the early return on an empty window
Fetch ==
  /\ pc = "fetch"
  /\ calls' = Append(calls, "fetch")
  /\ \/ \E w \in Windows :
          /\ upTransactions' = w
          /\ pc' = IF IsEmptyFetch(w) THEN "succeeded" ELSE "transform"
          /\ UNCHANGED << result, fetchedCount, thrown >>
     \/ /\ \E e \in FetchErrors : Throw(e)
        /\ UNCHANGED << upTransactions, result, fetchedCount >>
  /\ UNCHANGED << cfgVars, mainVars, actualTransactions, pendingError, destVars,
                  logVars, remoteAtStart, runs, fnVars, timerVars, pageVars, apiResult >>

AfterTransform_straightToConnect == "init"

\* what follows the transform: Step 4, the data directory
AfterTransform == "mkdir"

\* Step 3: transformTransactions(upTransactions)
Transform ==
  /\ pc = "transform"
  /\ calls' = Append(calls, "transform")
  /\ IF TransformThrows(upTransactions)
       THEN Throw(TransformError) /\ UNCHANGED actualTransactions
       ELSE /\ actualTransactions' = transformTransactions(upTransactions)
            /\ pc' = AfterTransform
            /\ UNCHANGED thrown
  /\ UNCHANGED << cfgVars, mainVars, upTransactions, result, fetchedCount,
                  pendingError, destVars, logVars, remoteAtStart, runs, fnVars, timerVars, pageVars, apiResult >>

\* Step 4: create the data directory when it does not exist
EnsureDataDir ==
  /\ pc = "mkdir"
  /\ IF dataDirExists
       THEN pc' = "init" /\ UNCHANGED << dataDirExists, calls, thrown >>
       ELSE /\ calls' = Append(calls, "mkdir")
            /\ \/ dataDirExists' = TRUE /\ pc' = "init" /\ UNCHANGED thrown
               \/ Throw(MkdirError) /\ UNCHANGED dataDirExists
  /\ UNCHANGED << cfgVars, mainVars, attemptVars, session, local, remote,
                  logVars, remoteAtStart, runs, fnVars, timerVars, pageVars, apiResult >>

\* connect(): await api.init(...)
ConnectInit ==
  /\ pc = "init"
  /\ calls' = Append(calls, "connect")
  /\ \/ session' = "Opening" /\ pc' = "download"
        /\ UNCHANGED << thrown, pendingError >>
     \/ RaiseTo(AfterConnectThrows, InitError) /\ UNCHANGED session
  /\ UNCHANGED << cfgVars, mainVars, upTransactions, actualTransactions, result,
                  fetchedCount, local, remote, dataDirExists,
                  logVars, remoteAtStart, runs, fnVars, timerVars, pageVars, apiResult >>

\* connect(): await api.downloadBudget(syncId, downloadOptions)
ConnectDownload ==
  /\ pc = "download"
  /\ \/ /\ local' = remote
        /\ session' = "Connected"
        /\ pc' = "import"
        /\ UNCHANGED << thrown, pendingError >>
     \/ /\ RaiseTo(AfterConnectThrows, DownloadError)
        /\ UNCHANGED << local, session >>
  /\ UNCHANGED << cfgVars, mainVars, upTransactions, actualTransactions, result,
                  fetchedCount, remote, dataDirExists,
                  logVars, calls, remoteAtStart, runs, fnVars, timerVars, pageVars, apiResult >>

\* try { result = await importTransactions(actualTransactions) }
\* the engine may report any records of the batch in result.errors; an
\* import that rejects as a whole may have applied any proper prefix of the
\* batch
Import ==
  /\ pc = "import"
  /\ calls' = Append(calls, "import")
  /\ \/ \E rejected \in Rejections(actualTransactions) :
          LET r == importTransactions(local, actualTransactions, rejected) IN
            /\ local' = r.budget
            /\ apiResult' = r.result
            /\ IF ImportErrorsThrow(r.result)
                 THEN RaiseTo(AfterImportThrows, ImportError) /\ UNCHANGED result
                 ELSE /\ result' = r.result
                      /\ pc' = "disconnect"
                      /\ UNCHANGED << pendingError, thrown >>
     \/ /\ Len(actualTransactions) > 0
        /\ \E k \in 0..(Len(actualTransactions) - 1) :
             local' = importTransactions(local, SubSeq(actualTransactions, 1, k), {}).budget
        /\ RaiseTo(AfterImportThrows, ImportError)
        /\ UNCHANGED << result, apiResult >>
  /\ UNCHANGED << cfgVars, mainVars, upTransactions, actualTransactions,
                  fetchedCount, session, remote, dataDirExists, logVars,
                  remoteAtStart, runs, fnVars, timerVars, pageVars >>

\* finally { await disconnect() }, then the return or the pending exception.
\* api.shutdown syncs the local copy to the server; when it rejects, the sync
\* may or may not have reached the server.  The session counts as
\* Disconnected once the teardown has been requested.
Disconnect ==
  /\ pc = "disconnect"
  /\ calls' = Append(calls, "disconnect")
  /\ session' = "Disconnected"
  /\ \/ /\ remote' = local
        /\ IF pendingError # NoError
             THEN Throw(pendingError) /\ UNCHANGED fetchedCount
             ELSE /\ fetchedCount' = Len(upTransactions)
                  /\ pc' = "succeeded"
                  /\ UNCHANGED thrown
     \/ /\ remote' \in {remote, local}
        /\ thrown' = ShutdownError
        /\ pc' = AfterShutdownThrows
        /\ UNCHANGED fetchedCount
  /\ UNCHANGED << cfgVars, mainVars, upTransactions, actualTransactions, result,
                  pendingError, local, dataDirExists, logVars, remoteAtStart, runs, fnVars, timerVars, pageVars, apiResult >>

(***************************************************************************)
(* The process is started again (the next scheduled or manual run) against *)
(* the same budget and the same working directory.                         *)
(***************************************************************************)
NewRun ==
  /\ pc \in {"returned", "exited"}
  /\ runs < MaxRuns
  /\ runs' = runs + 1
  /\ pc' = "start"
  /\ maxAttempts' = 0
  /\ attempt' = 0
  /\ lastError' = NoError
  /\ upTransactions' = << >>
  /\ actualTransactions' = << >>
  /\ result' = EmptyResult
  /\ fetchedCount' = 0
  /\ pendingError' = NoError
  /\ thrown' = NoError
  /\ attemptsStarted' = 0
  /\ sleeps' = << >>
  /\ notifications' = << >>
  /\ posts' = << >>
  /\ exitCode' = NoExit
  /\ calls' = << >>
  /\ session' = "Disconnected"
  /\ apiResult' = EmptyResult
  /\ UNCHANGED << cfgVars, local, remote, dataDirExists, remoteAtStart, fnVars,
                  timerVars, pageVars >>

Next ==
  \/ MainStart
  \/ LoopCheck
  \/ Ping
  \/ Fetch
  \/ Transform
  \/ EnsureDataDir
  \/ ConnectInit
  \/ ConnectDownload
  \/ Import
  \/ Disconnect
  \/ NotifySuccess
  \/ Catch
  \/ Sleep
  \/ NotifyFailure
  \/ Exit

Spec == Init /\ [][Next]_vars

\* every attempt terminates: each awaited call settles, each sleep ends
SpecFair == Spec /\ WF_vars(Next)

\* consecutive runs of the process against the same budget and working
\* directory, with MAX_RETRIES 1 or 2 and no webhook
InitRuns ==
  /\ Init
  /\ maxRetriesEnv \in {"1", "2"}
  /\ webhookUrl = Null

NextRuns == Next \/ NewRun

SpecRuns == InitRuns /\ [][NextRuns]_vars

(***************************************************************************)
(* The backoff calculator on its own: getBackoffDelay applied to attempt   *)
(* indices 0..MaxIdx, MaxCalls times in a row.                             *)
(***************************************************************************)
MaxCalls == 2

InitBackoff ==
  /\ maxRetriesEnv = "unset"
  /\ webhookUrl = Null
  /\ Fresh
  /\ session = "Disconnected"
  /\ local = << >>
  /\ remote = << >>
  /\ dataDirExists = FALSE
  /\ remoteAtStart = << >>
  /\ runs = 1
  /\ arg \in 0..MaxIdx
  /\ hist = << >>
  /\ Idle

BackoffCall ==
  /\ Len(hist) < MaxCalls
  /\ hist' = Append(hist, [arg |-> arg, ret |-> getBackoffDelay(arg)])
  /\ arg' \in 0..MaxIdx
  /\ UNCHANGED << cfgVars, pc, mainVars, attemptVars, thrown, destVars, logVars,
                  calls, remoteAtStart, runs, timerVars, pageVars, apiResult >>

NextBackoff == BackoffCall

SpecBackoff == InitBackoff /\ [][NextBackoff]_vars

(***************************************************************************)
(* config.js: validateConfig                                               *)
(***************************************************************************)
REQUIRED_VARS ==
  << "UP_API_TOKEN", "ACTUAL_SERVER_URL", "ACTUAL_PASSWORD", "ACTUAL_SYNC_ID",
     "ACTUAL_ACCOUNT_ID" >>

\* what process.env holds for a variable
EnvStates == {"unset", "empty", "set"}

\* the settings of the required variables
Environments == [1..Len(REQUIRED_VARS) -> EnvStates]

\* !process.env[key]
IsMissing(env, i) == env[i] \in {"unset", "empty"}

\* REQUIRED_VARS.filter((key) => !process.env[key]), from position i on
RECURSIVE MissingFrom(_, _)
MissingFrom(env, i) ==
  IF i > Len(REQUIRED_VARS) THEN << >>
  ELSE (IF IsMissing(env, i) THEN << REQUIRED_VARS[i] >> ELSE << >>)
         \o MissingFrom(env, i + 1)

\* validateConfig(): what it throws, what it writes with console.error and
\* the code it gives to process.exit
validateConfig(env) ==
  LET missing == MissingFrom(env, 1) IN
  IF Len(missing) > 0
    THEN [ thrown |-> NoError,
           printed |-> << "ERROR: Missing required environment variables:" >>
                         \o [i \in DOMAIN missing |-> "  - " \o missing[i]]
                         \o << "Copy .env.example to .env and fill in your values." >>,
           exitCode |-> 1 ]
    ELSE [ thrown |-> NoError, printed |-> << >>, exitCode |-> NoExit ]

\* try { validateConfig() } catch (err) { process.exit(1) }; main(): whether
\* main is started
EntryStartsMain(outcome) ==
  outcome.thrown = NoError /\ outcome.exitCode = NoExit

(***************************************************************************)
(* functions/syncTimer.js: the timer trigger.  The handler makes one       *)
(* attempt per invocation; the host invokes it again after a failed        *)
(* invocation, up to maxRetryCount times for a tick.                       *)
(***************************************************************************)
\* retry: { strategy: 'exponentialBackoff', maxRetryCount: 3, ... }
maxRetryCount == 3

TimerReportedAttempts_total == maxRetryCount + 1

\* notifyFailure(error.message, 1): the attempts the handler reports
TimerReportedAttempts == 1

\* the environments a tick is followed in: complete, or with one required
\* variable unset or empty
TimerEnvironments ==
  { env \in Environments :
      \A i \in DOMAIN env : i > 1 => env[i] = "set" }

InitTimer ==
  /\ maxRetriesEnv = "unset"
  /\ webhookUrl \in {Null, DiscordUrl}
  /\ pc = "tick"
  /\ maxAttempts = 0
  /\ attempt = 0
  /\ lastError = NoError
  /\ upTransactions = << >>
  /\ actualTransactions = << >>
  /\ result = EmptyResult
  /\ fetchedCount = 0
  /\ pendingError = NoError
  /\ thrown = NoError
  /\ attemptsStarted = 0
  /\ sleeps = << >>
  /\ notifications = << >>
  /\ posts = << >>
  /\ exitCode = NoExit
  /\ calls = << >>
  /\ session = "Disconnected"
  /\ local = << >>
  /\ remote = << >>
  /\ dataDirExists \in BOOLEAN
  /\ remoteAtStart = << >>
  /\ runs = 1
  /\ arg \in TimerEnvironments
  /\ hist = << >>
  /\ Idle

\* the host invokes the handler: validateConfig(), then executeSyncAttempt();
\* notifications and posts are those of the invocation
TimerInvoke ==
  /\ pc = "tick"
  /\ LET outcome == validateConfig(arg) IN
       IF outcome.exitCode # NoExit
         THEN \* process.exit inside the handler: the host process is gone
              /\ pc' = "host_exited"
              /\ exitCode' = outcome.exitCode
              /\ UNCHANGED << attemptVars, thrown, attemptsStarted, calls,
                              remoteAtStart, notifications, posts, apiResult >>
         ELSE IF outcome.thrown # NoError
           THEN \* thrown before the try block: straight to the host
                /\ pc' = "rethrown"
                /\ thrown' = outcome.thrown
                /\ UNCHANGED << attemptVars, exitCode, attemptsStarted, calls,
                                remoteAtStart, notifications, posts, apiResult >>
           ELSE /\ pc' = "ping"
                /\ attemptsStarted' = attemptsStarted + 1
                /\ upTransactions' = << >>
                /\ actualTransactions' = << >>
                /\ result' = EmptyResult
                /\ fetchedCount' = 0
                /\ pendingError' = NoError
                /\ thrown' = NoError
                /\ calls' = << >>
                /\ remoteAtStart' = remote
                /\ notifications' = << >>
                /\ posts' = << >>
                /\ apiResult' = EmptyResult
                /\ UNCHANGED exitCode
  /\ UNCHANGED << cfgVars, mainVars, destVars, sleeps, runs, fnVars,
                  timerVars, pageVars >>

\* await notifySuccess(result, fetchedCount, durationMs); the handler returns
TimerNotifySuccess ==
  /\ pc = "succeeded"
  /\ \E d \in Deliveries(webhookUrl) :
       /\ notifications' = Append(notifications,
            Notification("success", Null, 0, result, fetchedCount, d))
       /\ SendNotification("success", d)
  /\ pc' = "tick_done"
  /\ UNCHANGED << cfgVars, mainVars, attemptVars, thrown, destVars,
                  attemptsStarted, sleeps, exitCode, calls, remoteAtStart, runs,
                  fnVars, timerVars, pageVars, apiResult >>

\* catch (error) { await notifyFailure(error.message, 1); throw error }
TimerCatch ==
  /\ pc = "failed"
  /\ \E d \in Deliveries(webhookUrl) :
       /\ notifications' = Append(notifications,
            Notification("failure", thrown.message, TimerReportedAttempts,
                         EmptyResult, 0, d))
       /\ SendNotification("failure", d)
  /\ alerts' = Append(alerts, [retry |-> retryCount,
                               attempts |-> TimerReportedAttempts])
  /\ pc' = "rethrown"
  /\ UNCHANGED << cfgVars, mainVars, attemptVars, thrown, destVars,
                  attemptsStarted, sleeps, exitCode, calls, remoteAtStart, runs,
                  fnVars, retryCount, pageVars, apiResult >>

\* the host's retry policy after a failed invocation
HostRetry ==
  /\ pc = "rethrown"
  /\ IF retryCount < maxRetryCount
       THEN retryCount' = retryCount + 1 /\ pc' = "tick"
       ELSE retryCount' = retryCount /\ pc' = "tick_failed"
  /\ UNCHANGED << cfgVars, mainVars, attemptVars, thrown, destVars, logVars,
                  calls, remoteAtStart, runs, fnVars, alerts, pageVars, apiResult >>

NextTimer ==
  \/ TimerInvoke
  \/ Ping
  \/ Fetch
  \/ Transform
  \/ EnsureDataDir
  \/ ConnectInit
  \/ ConnectDownload
  \/ Import
  \/ Disconnect
  \/ TimerNotifySuccess
  \/ TimerCatch
  \/ HostRetry

SpecTimer == InitTimer /\ [][NextTimer]_vars

(***************************************************************************)
(* upbank.js: fetchTransactions page by page, against a provider that      *)
(* holds a result set of 1..MaxPages pages.                                *)
(***************************************************************************)
\* the data array of a page
PageDatas == { Window(sel, 1) : sel \in SUBSET (1..NumTxns) }

\* the result sets of the provider: the data arrays of its pages, in order
Chains == UNION { [1..n -> PageDatas] : n \in 1..MaxPages }

\* while (url) ends on null
NoUrl == [page |-> 0, filtered |-> FALSE]

\* new URL(baseUrl + '/transactions') with filter[since], filter[status]
\* and page[size] set
FirstUrl == [page |-> 1, filtered |-> TRUE]

\* the cursor link the provider hands out for page k
PageUrl(k) == [page |-> k, filtered |-> FALSE]

\* links.next in the response for page k
ResponseNext(k) ==
  IF k < Len(pages) THEN [kind |-> "url", url |-> PageUrl(k + 1)]
  ELSE [kind |-> lastLink, url |-> NoUrl]

FollowLink_absentRestarts(link) ==
  IF link.kind = "url" THEN link.url
  ELSE IF link.kind = "absent" THEN FirstUrl ELSE NoUrl

\* nextLink = data.links?.next || null; url = nextLink ? new URL(nextLink) : null
FollowLink(link) == IF link.kind = "url" THEN link.url ELSE NoUrl

Accumulate_replace(all, transactions) == transactions

\* allTransactions = allTransactions.concat(transactions)
Accumulate(all, transactions) == all \o transactions

AfterRequest_noAwait == "f_loop"

\* const response = await fetch(...): the loop is suspended until the
\* response is there
AfterRequest == "f_await"

InitFetch ==
  /\ maxRetriesEnv = "unset"
  /\ webhookUrl = Null
  /\ pc = "f_start"
  /\ maxAttempts = 0
  /\ attempt = 0
  /\ lastError = NoError
  /\ upTransactions = << >>
  /\ actualTransactions = << >>
  /\ result = EmptyResult
  /\ fetchedCount = 0
  /\ pendingError = NoError
  /\ thrown = NoError
  /\ attemptsStarted = 0
  /\ sleeps = << >>
  /\ notifications = << >>
  /\ posts = << >>
  /\ exitCode = NoExit
  /\ calls = << >>
  /\ session = "Disconnected"
  /\ local = << >>
  /\ remote = << >>
  /\ dataDirExists = FALSE
  /\ remoteAtStart = << >>
  /\ runs = 1
  /\ arg = 0
  /\ hist = << >>
  /\ retryCount = 0
  /\ alerts = << >>
  /\ pages \in Chains
  /\ lastLink \in {"null", "absent"}
  /\ url = NoUrl
  /\ allTransactions = << >>
  /\ pageCount = 0
  /\ inFlight = 0
  /\ requests = << >>
  /\ apiResult = EmptyResult

\* let allTransactions = []; let pageCount = 0; let url = new URL(...)
FetchBegin ==
  /\ pc = "f_start"
  /\ allTransactions' = << >>
  /\ pageCount' = 0
  /\ url' = FirstUrl
  /\ pc' = "f_loop"
  /\ UNCHANGED << cfgVars, mainVars, attemptVars, thrown, destVars, logVars,
                  calls, remoteAtStart, runs, fnVars, timerVars, pages,
                  lastLink, inFlight, requests, apiResult >>

\* while (url) { pageCount++; fetch(url.toString(), ...) }, or the return
\* of allTransactions when url is null
FetchLoop ==
  /\ pc = "f_loop"
  /\ IF url # NoUrl
       THEN /\ pageCount' = pageCount + 1
            /\ requests' = Append(requests, url)
            /\ inFlight' = inFlight + 1
            /\ pc' = AfterRequest
            /\ UNCHANGED upTransactions
       ELSE /\ upTransactions' = allTransactions
            /\ pc' = "fetched"
            /\ UNCHANGED << pageCount, requests, inFlight >>
  /\ UNCHANGED << cfgVars, mainVars, actualTransactions, result, fetchedCount,
                  pendingError, thrown, destVars, logVars, calls, remoteAtStart,
                  runs, fnVars, timerVars, pages, lastLink, url,
                  allTransactions, apiResult >>

PageRequestFails_returnsPartial(e) ==
  /\ upTransactions' = allTransactions
  /\ pc' = "fetched"
  /\ UNCHANGED thrown

\* throw new Error(...) inside the loop, or the rejection of the awaited
\* fetch: the exception leaves fetchTransactions and nothing is returned
PageRequestFails(e) ==
  /\ Throw(e)
  /\ UNCHANGED upTransactions

\* the awaited response arrives: fetch rejects, the status is not ok, or the
\* page is appended and the cursor moves to links.next
FetchResponse ==
  /\ pc = "f_await"
  /\ inFlight > 0
  /\ inFlight' = inFlight - 1
  /\ \/ /\ \E e \in FetchErrors : PageRequestFails(e)
        /\ UNCHANGED << allTransactions, url >>
     \/ /\ allTransactions' = Accumulate(allTransactions, pages[url.page])
        /\ url' = FollowLink(ResponseNext(url.page))
        /\ pc' = "f_loop"
        /\ UNCHANGED << thrown, upTransactions >>
  /\ UNCHANGED << cfgVars, mainVars, actualTransactions, result, fetchedCount,
                  pendingError, destVars, logVars, calls,
                  remoteAtStart, runs, fnVars, timerVars, pages, lastLink,
                  pageCount, requests, apiResult >>

NextFetch ==
  \/ FetchBegin
  \/ FetchLoop
  \/ FetchResponse

SpecFetch == InitFetch /\ [][NextFetch]_vars

\* every awaited request resolves and the loop keeps running
SpecFetchFair == SpecFetch /\ WF_vars(NextFetch)

(***************************************************************************)
(* One attempt of sync.js with fetchTransactions followed page by page:    *)
(* the steps after the fetch are those of executeSyncAttempt.              *)
(***************************************************************************)
InitFetchAttempt ==
  /\ maxRetriesEnv = "unset"
  /\ webhookUrl = Null
  /\ pc = "ping"
  /\ maxAttempts = 0
  /\ attempt = 0
  /\ lastError = NoError
  /\ upTransactions = << >>
  /\ actualTransactions = << >>
  /\ result = EmptyResult
  /\ fetchedCount = 0
  /\ pendingError = NoError
  /\ thrown = NoError
  /\ attemptsStarted = 1
  /\ sleeps = << >>
  /\ notifications = << >>
  /\ posts = << >>
  /\ exitCode = NoExit
  /\ calls = << >>
  /\ session = "Disconnected"
  /\ local = << >>
  /\ remote = << >>
  /\ dataDirExists = TRUE
  /\ remoteAtStart = << >>
  /\ runs = 1
  /\ arg = 0
  /\ hist = << >>
  /\ retryCount = 0
  /\ alerts = << >>
  /\ pages \in Chains
  /\ lastLink \in {"null", "absent"}
  /\ url = NoUrl
  /\ allTransactions = << >>
  /\ pageCount = 0
  /\ inFlight = 0
  /\ requests = << >>
  /\ apiResult = EmptyResult

\* Step 2: const upTransactions = await fetchTransactions()
FetchCall ==
  /\ pc = "fetch"
  /\ calls' = Append(calls, "fetch")
  /\ pc' = "f_start"
  /\ UNCHANGED << cfgVars, mainVars, attemptVars, thrown, destVars, logVars,
                  remoteAtStart, runs, fnVars, timerVars, pageVars, apiResult >>

\* fetchTransactions has returned: the early return on an empty window, or
\* on to the transform
FetchReturn ==
  /\ pc = "fetched"
  /\ pc' = IF IsEmptyFetch(upTransactions) THEN "succeeded" ELSE "transform"
  /\ UNCHANGED << cfgVars, mainVars, attemptVars, thrown, destVars, logVars,
                  calls, remoteAtStart, runs, fnVars, timerVars, pageVars,
                  apiResult >>

NextFetchAttempt ==
  \/ Ping
  \/ FetchCall
  \/ FetchBegin
  \/ FetchLoop
  \/ FetchResponse
  \/ FetchReturn
  \/ Transform
  \/ EnsureDataDir
  \/ ConnectInit
  \/ ConnectDownload
  \/ Import
  \/ Disconnect

SpecFetchAttempt == InitFetchAttempt /\ [][NextFetchAttempt]_vars

(***************************************************************************)
(* upbank.js: what ping and one page request of fetchTransactions make of  *)
(* a response, on their own: MaxCalls responses in a row.                  *)
(***************************************************************************)
\* the status of a successful response
OkStatus == 200

\* response.ok
IsOk(status) == status >= 200 /\ status < 300

\* response bodies: not JSON at all, or JSON whose errors[0].detail is the
\* given one (Null when there is none)
Bodies ==
  { [parseable |-> FALSE, detail |-> Null] } \cup
  { [parseable |-> TRUE, detail |-> det] : det \in Details }

\* await response.json().catch(() => ({})), then body.errors?.[0]?.detail
BodyDetail(body) == IF body.parseable THEN body.detail ELSE Null

\* await response.json() of an ok response rejects when the body is no JSON
JsonError(step) == Error(step, "Unexpected token < in JSON at position 0")

\* ping() for a response: NoError when it returns true
PingOutcome(status, body) ==
  IF ~IsOk(status) THEN PingError(status, BodyDetail(body))
  ELSE IF ~body.parseable THEN JsonError("ping")
  ELSE NoError

\* one turn of the loop of fetchTransactions for a response: NoError when
\* the page is accepted
FetchPageOutcome(status, body) ==
  IF ~IsOk(status) THEN FetchError(status, BodyDetail(body))
  ELSE IF ~body.parseable THEN JsonError("fetch")
  ELSE NoError

HttpCalls ==
  [ op : {"ping", "fetch"}, status : HttpStatuses \cup {OkStatus}, body : Bodies ]

HttpOutcome(call) ==
  IF call.op = "ping" THEN PingOutcome(call.status, call.body)
  ELSE FetchPageOutcome(call.status, call.body)

InitHttp ==
  /\ maxRetriesEnv = "unset"
  /\ webhookUrl = Null
  /\ Fresh
  /\ session = "Disconnected"
  /\ local = << >>
  /\ remote = << >>
  /\ dataDirExists = FALSE
  /\ remoteAtStart = << >>
  /\ runs = 1
  /\ arg \in HttpCalls
  /\ hist = << >>
  /\ Idle

HttpCall ==
  /\ Len(hist) < MaxCalls
  /\ hist' = Append(hist, [arg |-> arg, ret |-> HttpOutcome(arg)])
  /\ arg' \in HttpCalls
  /\ UNCHANGED << cfgVars, pc, mainVars, attemptVars, thrown, destVars, logVars,
                  calls, remoteAtStart, runs, timerVars, pageVars, apiResult >>

NextHttp == HttpCall

SpecHttp == InitHttp /\ [][NextHttp]_vars

(***************************************************************************)
(* config.js: validateConfig and the entry point of index.js, for every    *)
(* setting of the required variables in the environment.                   *)
(***************************************************************************)
InitConfig ==
  /\ maxRetriesEnv = "unset"
  /\ webhookUrl = Null
  /\ Fresh
  /\ session = "Disconnected"
  /\ local = << >>
  /\ remote = << >>
  /\ dataDirExists = FALSE
  /\ remoteAtStart = << >>
  /\ runs = 1
  /\ arg \in Environments
  /\ hist = << >>
  /\ Idle

ConfigCall ==
  /\ hist = << >>
  /\ LET outcome == validateConfig(arg) IN
       hist' = << [arg |-> arg, ret |-> outcome,
                   mainStarted |-> EntryStartsMain(outcome)] >>
  /\ UNCHANGED << cfgVars, pc, mainVars, attemptVars, thrown, destVars, logVars,
                  calls, remoteAtStart, runs, arg, timerVars, pageVars,
                  apiResult >>

NextConfig == ConfigCall

SpecConfig == InitConfig /\ [][NextConfig]_vars

(***************************************************************************)
(* actual.js: importTransactions on its own, for every batch of distinct   *)
(* well-formed records in any order and every budget.                      *)
(***************************************************************************)
\* config.actual.accountId
AccountId == "acc_1"

\* the lists of distinct well-formed source records, in any order
SourceLists ==
  { [i \in DOMAIN q |-> SourceTxn(q[i])] :
      q \in { f \in UNION { [1..n -> 1..NumTxns] : n \in 0..NumTxns } :
                \A i, j \in DOMAIN f : i # j => f[i] # f[j] } }

Batches == { transformTransactions(q) : q \in SourceLists }

ImportApiCalls_perRecord(transactions) ==
  [ i \in DOMAIN transactions |->
      [ fn |-> "importTransactions", accountId |-> AccountId,
        transactions |-> << transactions[i] >> ] ]

\* the calls importTransactions(transactions) makes to the destination API
ImportApiCalls(transactions) ==
  IF Len(transactions) = 0 THEN << >>
  ELSE << [ fn |-> "importTransactions", accountId |-> AccountId,
            transactions |-> transactions ] >>

ImportInputs ==
  UNION { [ budget : Batches, transactions : {b}, rejected : Rejections(b) ] :
            b \in Batches }

InitImport ==
  /\ maxRetriesEnv = "unset"
  /\ webhookUrl = Null
  /\ Fresh
  /\ session = "Disconnected"
  /\ local = << >>
  /\ remote = << >>
  /\ dataDirExists = FALSE
  /\ remoteAtStart = << >>
  /\ runs = 1
  /\ arg \in ImportInputs
  /\ hist = << >>
  /\ Idle

ImportCall ==
  /\ hist = << >>
  /\ hist' = << [ arg |-> arg,
                  ret |-> importTransactions(arg.budget, arg.transactions, arg.rejected),
                  apiCalls |-> ImportApiCalls(arg.transactions) ] >>
  /\ UNCHANGED << cfgVars, pc, mainVars, attemptVars, thrown, destVars, logVars,
                  calls, remoteAtStart, runs, arg, timerVars, pageVars,
                  apiResult >>

NextImport == ImportCall

SpecImport == InitImport /\ [][NextImport]_vars

(***************************************************************************)
(* The two executeSyncAttempt functions of the sources, sync.js:26-65 (the *)
(* one the timer handler requires) and index.js:53-87 (the one main of     *)
(* index.js calls), run on the same script of source and destination       *)
(* behaviour.                                                              *)
(***************************************************************************)
\* what the source, the file system and the destination do when called:
\* for each call the error it fails with, or NoError
Scripts ==
  [ dataDirExists : BOOLEAN,
    ping : {NoError, NetworkError("ping")},
    fetch : {NoError, NetworkError("fetch")},
    window : Windows,
    mkdir : {NoError, MkdirError},
    init : {NoError, InitError},
    download : {NoError, DownloadError},
    import : {NoError, ImportError},
    shutdown : {NoError, ShutdownError} ]

\* how an attempt ends: the calls it made in order, what it threw or
\* returned, and whether the data directory exists afterwards
AttemptEnd(made, err, res, fetched, dir) ==
  [ calls |-> made, thrown |-> err, result |-> res, fetchedCount |-> fetched,
    dataDirExists |-> dir ]

\* await connect(); try { result = await importTransactions(...) }
\* finally { await disconnect() }; return { result, fetchedCount, ... }
ConnectImportDisconnect(s, fetched, actual, made, dir) ==
  IF s.init # NoError
    THEN AttemptEnd(made \o << "connect" >>, s.init, EmptyResult, 0, dir)
  ELSE IF s.download # NoError
    THEN AttemptEnd(made \o << "connect" >>, s.download, EmptyResult, 0, dir)
  ELSE LET all == made \o << "connect", "import", "disconnect" >> IN
    IF s.shutdown # NoError
      THEN AttemptEnd(all, s.shutdown, EmptyResult, 0, dir)
    ELSE IF s.import # NoError
      THEN AttemptEnd(all, s.import, EmptyResult, 0, dir)
    ELSE AttemptEnd(all, NoError,
                    importTransactions(<< >>, actual, {}).result, fetched, dir)

\* sync.js: executeSyncAttempt, with the step that creates the data
\* directory when it does not exist
SyncExecuteSyncAttempt(s) ==
  IF s.ping # NoError
    THEN AttemptEnd(<< "ping" >>, s.ping, EmptyResult, 0, s.dataDirExists)
  ELSE IF s.fetch # NoError
    THEN AttemptEnd(<< "ping", "fetch" >>, s.fetch, EmptyResult, 0, s.dataDirExists)
  ELSE IF IsEmptyFetch(s.window)
    THEN AttemptEnd(<< "ping", "fetch" >>, NoError, EmptyResult, 0, s.dataDirExists)
  ELSE IF TransformThrows(s.window)
    THEN AttemptEnd(<< "ping", "fetch", "transform" >>, TransformError,
                    EmptyResult, 0, s.dataDirExists)
  ELSE IF s.dataDirExists
    THEN ConnectImportDisconnect(s, Len(s.window), transformTransactions(s.window),
                                 << "ping", "fetch", "transform" >>, TRUE)
  ELSE IF s.mkdir # NoError
    THEN AttemptEnd(<< "ping", "fetch", "transform", "mkdir" >>, s.mkdir,
                    EmptyResult, 0, FALSE)
  ELSE ConnectImportDisconnect(s, Len(s.window), transformTransactions(s.window),
                               << "ping", "fetch", "transform", "mkdir" >>, TRUE)

\* index.js: its own executeSyncAttempt, which goes from the transform
\* straight to connect()
IndexExecuteSyncAttempt(s) ==
  IF s.ping # NoError
    THEN AttemptEnd(<< "ping" >>, s.ping, EmptyResult, 0, s.dataDirExists)
  ELSE IF s.fetch # NoError
    THEN AttemptEnd(<< "ping", "fetch" >>, s.fetch, EmptyResult, 0, s.dataDirExists)
  ELSE IF IsEmptyFetch(s.window)
    THEN AttemptEnd(<< "ping", "fetch" >>, NoError, EmptyResult, 0, s.dataDirExists)
  ELSE IF TransformThrows(s.window)
    THEN AttemptEnd(<< "ping", "fetch", "transform" >>, TransformError,
                    EmptyResult, 0, s.dataDirExists)
  ELSE ConnectImportDisconnect(s, Len(s.window), transformTransactions(s.window),
                               << "ping", "fetch", "transform" >>, s.dataDirExists)

InitCallers ==
  /\ maxRetriesEnv = "unset"
  /\ webhookUrl = Null
  /\ Fresh
  /\ session = "Disconnected"
  /\ local = << >>
  /\ remote = << >>
  /\ dataDirExists = FALSE
  /\ remoteAtStart = << >>
  /\ runs = 1
  /\ arg \in Scripts
  /\ hist = << >>
  /\ Idle

\* one attempt by each caller on the same script: the timer handler's
\* (sync.js) and the manual entry point's (index.js)
CallersAttempt ==
  /\ hist = << >>
  /\ hist' = << [ arg |-> arg,
                  scheduled |-> SyncExecuteSyncAttempt(arg),
                  manual |-> IndexExecuteSyncAttempt(arg) ] >>
  /\ UNCHANGED << cfgVars, pc, mainVars, attemptVars, thrown, destVars, logVars,
                  calls, remoteAtStart, runs, arg, timerVars, pageVars,
                  apiResult >>

NextCallers == CallersAttempt

SpecCallers == InitCallers /\ [][NextCallers]_vars

(***************************************************************************)
(* transform.js on its own: transformTransaction on every record of        *)
(* TransformRecords, transformTransactions on every list of BatchLists.    *)
(***************************************************************************)
\* the longest list handed to transformTransactions
MaxBatch == 3

\* "2026-01-01T00:00:00Z" as a sequence of characters
Stamp3 ==
  << "2","0","2","6","-","0","1","-","0","1","T","0","0",":","0","0",":",
     "0","0","Z" >>

\* "2026-06-15T12:30:00" as a sequence of characters
Stamp4 ==
  << "2","0","2","6","-","0","6","-","1","5","T","1","2",":","3","0",":",
     "0","0" >>

\* attributes.createdAt with a positive offset, a negative offset, Z, none
TimeStamps == { Stamp1, Stamp2, Stamp3, Stamp4 }

\* attributes.message: null, the empty string, a text
Messages == { Null, "", "Coffee catch-up" }

\* attributes.amount: the integer and the decorated string vary on their own
TransformRecords ==
  [ id : {"txn_1", "txn_2"},
    wellFormed : {TRUE},
    description : {"Woolworths"},
    valueInBaseUnits : {0 - 1, 0, 350000},
    value : {"-0.01", "3500.00"},
    createdAt : TimeStamps,
    message : Messages ]

\* lists of well-formed records, repetitions included
BatchLists ==
  UNION { { [i \in 1..n |-> SourceTxn(q[i])] : q \in [1..n -> 1..(NumTxns + 2)] } :
            n \in 0..MaxBatch }

IsIncoming(t) == t.amount > 0
IsOutgoing(t) == t.amount < 0

RECURSIVE SumAmounts(_)
\* reduce((sum, t) => sum + t.amount, 0)
SumAmounts(q) ==
  IF q = << >> THEN 0 ELSE q[1].amount + SumAmounts(Tail(q))

\* `$${(cents / 100).toFixed(2)}`
Dollars(cents) ==
  LET a == IF cents < 0 THEN 0 - cents ELSE cents IN
    "$" \o (IF cents < 0 THEN "-" ELSE "") \o ToString(a \div 100) \o "."
        \o (IF a % 100 < 10 THEN "0" ELSE "") \o ToString(a % 100)

\* what transformTransactions hands to logger.debug
TransformationSummary(transformed) ==
  LET incoming == SelectSeq(transformed, IsIncoming)
      outgoing == SelectSeq(transformed, IsOutgoing) IN
    [ total |-> Len(transformed),
      incoming |-> Len(incoming),
      outgoing |-> Len(outgoing),
      incomingTotal |-> Dollars(SumAmounts(incoming)),
      outgoingTotal |-> Dollars(SumAmounts(outgoing)) ]

InitTransform ==
  /\ maxRetriesEnv = "unset"
  /\ webhookUrl = Null
  /\ Fresh
  /\ session = "Disconnected"
  /\ local = << >>
  /\ remote = << >>
  /\ dataDirExists = FALSE
  /\ remoteAtStart = << >>
  /\ runs = 1
  /\ arg \in TransformRecords
  /\ hist = << >>
  /\ Idle

\* transformTransaction(upTransaction)
TransformOne ==
  /\ hist = << >>
  /\ hist' = << [ arg |-> arg, ret |-> transformTransaction(arg) ] >>
  /\ UNCHANGED << cfgVars, pc, mainVars, attemptVars, thrown, destVars, logVars,
                  calls, remoteAtStart, runs, arg, timerVars, pageVars,
                  apiResult >>

NextTransform == TransformOne

SpecTransform == InitTransform /\ [][NextTransform]_vars

InitTransformBatch ==
  /\ maxRetriesEnv = "unset"
  /\ webhookUrl = Null
  /\ Fresh
  /\ session = "Disconnected"
  /\ local = << >>
  /\ remote = << >>
  /\ dataDirExists = FALSE
  /\ remoteAtStart = << >>
  /\ runs = 1
  /\ arg \in BatchLists
  /\ hist = << >>
  /\ Idle

\* transformTransactions(upTransactions), with the summary it logs
TransformBatch ==
  /\ hist = << >>
  /\ LET transformed == transformTransactions(arg) IN
       hist' = << [ arg |-> arg, ret |-> transformed,
                    logged |-> TransformationSummary(transformed) ] >>
  /\ UNCHANGED << cfgVars, pc, mainVars, attemptVars, thrown, destVars, logVars,
                  calls, remoteAtStart, runs, arg, timerVars, pageVars,
                  apiResult >>

NextTransformBatch == TransformBatch

SpecTransformBatch == InitTransformBatch /\ [][NextTransformBatch]_vars

(***************************************************************************)
(* actual.js: connect() on its own, call by call, for every setting of the *)
(* destination's environment variables.                                    *)
(***************************************************************************)
\* the settings of the destination in process.env; Null stands for unset
ActualEnvs ==
  [ ACTUAL_SERVER_URL : {"https://test.pikapods.net", "https://budget.example.com"},
    ACTUAL_PASSWORD : {"test-password", "hunter2"},
    ACTUAL_SYNC_ID : {"test-sync-uuid", "other-sync-uuid"},
    ACTUAL_E2E_PASSWORD : {Null, "", "my-e2e-pass"},
    ACTUAL_DATA_DIR : {Null, "", "/tmp/actual-data"} ]

\* x || d for a string x: undefined and the empty string are falsy
Truthy(x) == x \notin {Null, ""}
OrElse(x, d) == IF Truthy(x) THEN x ELSE d

\* config.actual
ConfigActual(env) ==
  [ serverUrl |-> env.ACTUAL_SERVER_URL,
    password |-> env.ACTUAL_PASSWORD,
    syncId |-> env.ACTUAL_SYNC_ID,
    e2ePassword |-> OrElse(env.ACTUAL_E2E_PASSWORD, Null),
    dataDir |-> OrElse(env.ACTUAL_DATA_DIR, "./actual-data") ]

\* the value undefined as an argument
Undefined == [ kind |-> "undefined" ]

DownloadOptions_always(e2ePassword) ==
  [ kind |-> "object", password |-> e2ePassword ]

\* config.actual.e2ePassword ? { password: ... } : undefined
DownloadOptions(e2ePassword) ==
  IF Truthy(e2ePassword) THEN [ kind |-> "object", password |-> e2ePassword ]
  ELSE Undefined

InitConnect ==
  /\ maxRetriesEnv = "unset"
  /\ webhookUrl = Null
  /\ pc = "c_init"
  /\ maxAttempts = 0
  /\ attempt = 0
  /\ lastError = NoError
  /\ upTransactions = << >>
  /\ actualTransactions = << >>
  /\ result = EmptyResult
  /\ fetchedCount = 0
  /\ pendingError = NoError
  /\ thrown = NoError
  /\ attemptsStarted = 0
  /\ sleeps = << >>
  /\ notifications = << >>
  /\ posts = << >>
  /\ exitCode = NoExit
  /\ calls = << >>
  /\ session = "Disconnected"
  /\ local = << >>
  /\ remote = << >>
  /\ dataDirExists = FALSE
  /\ remoteAtStart = << >>
  /\ runs = 1
  /\ arg \in ActualEnvs
  /\ hist = << >>
  /\ Idle

\* await api.init({ dataDir, serverURL, password })
ConnectApiInit ==
  /\ pc = "c_init"
  /\ LET c == ConfigActual(arg) IN
       hist' = Append(hist, [ fn |-> "init", dataDir |-> c.dataDir,
                              serverURL |-> c.serverUrl, password |-> c.password ])
  /\ \/ pc' = "c_download" /\ session' = "Opening" /\ UNCHANGED thrown
     \/ pc' = "c_failed" /\ thrown' = InitError /\ UNCHANGED session
  /\ UNCHANGED << cfgVars, mainVars, attemptVars, local, remote, dataDirExists,
                  logVars, calls, remoteAtStart, runs, arg, timerVars, pageVars,
                  apiResult >>

\* await api.downloadBudget(config.actual.syncId, downloadOptions)
ConnectApiDownload ==
  /\ pc = "c_download"
  /\ LET c == ConfigActual(arg) IN
       hist' = Append(hist, [ fn |-> "downloadBudget", syncId |-> c.syncId,
                              options |-> DownloadOptions(c.e2ePassword) ])
  /\ \/ pc' = "c_done" /\ session' = "Connected" /\ UNCHANGED thrown
     \/ pc' = "c_failed" /\ thrown' = DownloadError /\ UNCHANGED session
  /\ UNCHANGED << cfgVars, mainVars, attemptVars, local, remote, dataDirExists,
                  logVars, calls, remoteAtStart, runs, arg, timerVars, pageVars,
                  apiResult >>

NextConnect == ConnectApiInit \/ ConnectApiDownload

SpecConnect == InitConnect /\ [][NextConnect]_vars

(***************************************************************************)
(* config.js: the exported config object under assignments by the modules  *)
(* that hold a reference to it.                                            *)
(***************************************************************************)
\* the most assignments followed in one process
MaxWrites == 3

\* Object.freeze(object): freezes the object it is given and none of the
\* objects its properties refer to
ObjectFreeze(object) ==
  [ object EXCEPT !.frozen = [ o \in DOMAIN object.frozen |->
                                 IF o = "config" THEN TRUE ELSE object.frozen[o] ] ]

\* the object literal of config.js; "config" holds the top-level properties,
\* each nested section is an object of its own
ConfigLiteral(retries, hook) ==
  [ frozen |-> [ config |-> FALSE, up |-> FALSE, actual |-> FALSE, sync |-> FALSE ],
    config |-> [ webhookUrl |-> hook, logLevel |-> "info" ],
    up |-> [ baseUrl |-> "https://api.up.com.au/api/v1", apiToken |-> "up:yeah:token" ],
    actual |-> [ dataDir |-> "./actual-data", serverUrl |-> "https://test.pikapods.net" ],
    sync |-> [ windowHours |-> 48, maxRetries |-> ConfigMaxRetries(retries) ] ]

\* const config = Object.freeze({ ... })
LoadConfig(retries, hook) == ObjectFreeze(ConfigLiteral(retries, hook))

\* assignments object.key = value a module can make through its reference
ConfigWrites ==
  << [ object |-> "config", key |-> "webhookUrl", value |-> "https://evil.example/hook" ],
     [ object |-> "config", key |-> "logLevel", value |-> "debug" ],
     [ object |-> "up", key |-> "baseUrl", value |-> "https://evil.example/api" ],
     [ object |-> "actual", key |-> "dataDir", value |-> "/tmp/elsewhere" ],
     [ object |-> "sync", key |-> "windowHours", value |-> 1 ],
     [ object |-> "sync", key |-> "maxRetries", value |-> 1 ] >>

\* object.key = value: ignored (or a TypeError in strict mode) on a frozen
\* object, an ordinary store otherwise
AssignProperty(cfg, w) ==
  IF cfg.frozen[w.object] THEN cfg
  ELSE [ cfg EXCEPT ![w.object][w.key] = w.value ]

InitFreeze ==
  /\ maxRetriesEnv \in MaxRetriesEnv
  /\ webhookUrl \in WebhookUrls
  /\ Fresh
  /\ session = "Disconnected"
  /\ local = << >>
  /\ remote = << >>
  /\ dataDirExists = FALSE
  /\ remoteAtStart = << >>
  /\ runs = 1
  /\ arg = LoadConfig(maxRetriesEnv, webhookUrl)
  /\ hist = << >>
  /\ Idle

\* some module assigns to a property of config or of one of its sections
ConfigAssign ==
  /\ Len(hist) < MaxWrites
  /\ \E i \in DOMAIN ConfigWrites :
       LET w == ConfigWrites[i] IN
         /\ arg' = AssignProperty(arg, w)
         /\ hist' = Append(hist, [ write |-> w, before |-> arg,
                                   after |-> AssignProperty(arg, w) ])
  /\ UNCHANGED << cfgVars, pc, mainVars, attemptVars, thrown, destVars, logVars,
                  calls, remoteAtStart, runs, timerVars, pageVars, apiResult >>

NextFreeze == ConfigAssign

SpecFreeze == InitFreeze /\ [][NextFreeze]_vars

(***************************************************************************)
(* Properties.                                                             *)
(***************************************************************************)
\* the number of entries of the sequence q equal to x
Count(q, x) == Cardinality({i \in DOMAIN q : q[i] = x})

Kinds(q) == [i \in DOMAIN q |-> q[i].kind]

\* C1: retry exhaustion.  When maxAttempts = N >= 1 and every attempt has
\* failed, main has made exactly N attempts and N-1 sleeps, one after each
\* of the attempts 1..N-1 and none after attempt N; it emits no success
\* notification and exactly one failure notification, with attempts = N.
C1_RetryExhaustion ==
  (maxAttempts >= 1 /\ pc \in {"exhausted", "exit", "exited"}) =>
    /\ attemptsStarted = maxAttempts
    /\ Len(sleeps) = maxAttempts - 1
    /\ \A i \in DOMAIN sleeps : sleeps[i].after = i
    /\ Kinds(notifications) = IF pc = "exhausted" THEN << >> ELSE << "failure" >>
    /\ \A i \in DOMAIN notifications : notifications[i].attempts = maxAttempts

C1_Witness ==
  /\ pc = "exited"
  /\ maxAttempts = 4
  /\ attemptsStarted = 4
  /\ Len(sleeps) = 3
  /\ Kinds(notifications) = << "failure" >>
  /\ notifications[1].attempts = 4

\* C2: success stops the retry loop.  Once attempt k has succeeded, main
\* emits one success notification carrying that attempt's result and
\* returns: attempt k is the last one started, the only sleeps are the k-1
\* before it, and there is no failure notification and no exit code, also
\* when the attempts before k failed.
C2_SuccessStops ==
  /\ (pc = "returned") =>
       /\ Kinds(notifications) = << "success" >>
       /\ notifications[1].result = result
       /\ notifications[1].fetchedCount = fetchedCount
       /\ notifications[1].attempt = attempt
       /\ attemptsStarted = attempt
       /\ Len(sleeps) = attempt - 1
       /\ exitCode = NoExit
  /\ (\E i \in DOMAIN notifications : notifications[i].kind = "success") =>
       pc = "returned"

C2_Witness ==
  /\ pc = "returned"
  /\ attempt = 3
  /\ lastError # NoError
  /\ Len(result.added) > 0
  /\ Kinds(notifications) = << "success" >>

\* C3: backoff schedule.  The i-th sleep of a run follows failed attempt i
\* and lasts 300000 * 3^(i-1) ms (300000, 900000, 2700000, ...), whatever
\* the error was; attempt i+1 starts only after the i-th sleep.
C3_BackoffSchedule ==
  /\ \A i \in DOMAIN sleeps :
       /\ sleeps[i].after = i
       /\ sleeps[i].ms = 300000 * (3 ^ (i - 1))
       /\ i = 1 => sleeps[i].ms = 300000
       /\ i = 2 => sleeps[i].ms = 900000
       /\ i = 3 => sleeps[i].ms = 2700000
  /\ attemptsStarted <= Len(sleeps) + 1
  /\ (pc = "sleep") => (Len(sleeps) = attempt - 1 /\ attempt < maxAttempts)

C3_Witness ==
  /\ Len(sleeps) = 3
  /\ sleeps[3] = [after |-> 3, ms |-> 2700000]
  /\ attemptsStarted = 4
  /\ lastError.step = "import"

\* C4: getBackoffDelay(i) = 300000 * 3^i for every attempt index i, with
\* 300000, 900000, 2700000 for i = 0, 1, 2, and it is strictly increasing.
C4_BackoffFormula ==
  /\ \A k \in DOMAIN hist :
       /\ hist[k].ret = 300000 * (3 ^ hist[k].arg)
       /\ hist[k].arg = 0 => hist[k].ret = 300000
       /\ hist[k].arg = 1 => hist[k].ret = 900000
       /\ hist[k].arg = 2 => hist[k].ret = 2700000
  /\ \A j, k \in DOMAIN hist :
       /\ hist[j].arg < hist[k].arg => hist[j].ret < hist[k].ret
       /\ hist[j].arg = hist[k].arg => hist[j].ret = hist[k].ret

C4_Witness ==
  /\ Len(hist) = 2
  /\ hist[1] = [arg |-> 2, ret |-> 2700000]
  /\ hist[2].arg = MaxIdx

Before(q, x, y) ==
  \A i, j \in DOMAIN q : (q[i] = x /\ q[j] = y) => i < j

\* the attempt has ended: executeSyncAttempt has returned or thrown
AttemptEnded == pc \in {"succeeded", "failed"}

\* C5: resource release.  When importTransactions was invoked (connect had
\* succeeded) and the attempt ends, by the import's exception or by a normal
\* return, disconnect has been invoked exactly once, after the import.
C5_ResourceRelease ==
  /\ (AttemptEnded /\ Count(calls, "import") > 0) =>
       /\ Count(calls, "disconnect") = 1
       /\ Count(calls, "import") = 1
       /\ Before(calls, "import", "disconnect")
  /\ Count(calls, "disconnect") <= 1
  /\ (pc = "failed" /\ pendingError = ImportError) => Count(calls, "disconnect") = 1

C5_Witness ==
  /\ pc = "failed"
  /\ pendingError = ImportError
  /\ thrown = ImportError
  /\ Count(calls, "disconnect") = 1

\* C6: session state machine.  importTransactions is invoked only while the
\* session is Connected, after connect completed in the same attempt, and an
\* attempt in which connect completed ends with the session Disconnected,
\* whether it returns or throws.
C6_SessionStateMachine ==
  /\ (pc = "import") =>
       (session = "Connected" /\ Count(calls, "connect") = 1
          /\ Count(calls, "import") = 0)
  /\ Before(calls, "connect", "import")
  /\ (Count(calls, "import") > 0) => Count(calls, "connect") = 1
  /\ (AttemptEnded /\ Count(calls, "import") > 0) => session = "Disconnected"
  /\ (session = "Connected") => pc \in {"import", "disconnect"}

C6_Witness ==
  /\ pc = "failed"
  /\ thrown = ShutdownError
  /\ Count(calls, "import") = 1
  /\ session = "Disconnected"
  /\ attemptsStarted = 2

\* C7: empty fetch short-circuits.  When the fetch returns zero records the
\* attempt returns {added: [], updated: [], errors: []} with fetchedCount 0
\* after ping and fetch alone: no connect, import or disconnect and no
\* creation of the data directory; main reports it as a success.
C7_EmptyFetch ==
  (pc \in {"succeeded", "returned"} /\ Len(upTransactions) = 0) =>
    /\ calls = << "ping", "fetch" >>
    /\ result = [added |-> << >>, updated |-> << >>, errors |-> << >>]
    /\ fetchedCount = 0
    /\ (pc = "returned") =>
         /\ Kinds(notifications) = << "success" >>
         /\ notifications[1].fetchedCount = 0
         /\ notifications[1].result = result
         /\ exitCode = NoExit

C7_Witness ==
  /\ pc = "returned"
  /\ Len(upTransactions) = 0
  /\ calls = << "ping", "fetch" >>
  /\ ~dataDirExists
  /\ Kinds(notifications) = << "success" >>

AsSet(q) == {q[i] : i \in DOMAIN q}

\* the records of a budget that came from the source transaction with this id
WithId(budget, id) == {i \in DOMAIN budget : budget[i].imported_id = id}

\* the records of a batch that result.errors does not report
Accepted(transactions, res) ==
  {t \in AsSet(transactions) :
     \A i \in DOMAIN res.errors : res.errors[i].imported_id # t.imported_id}

\* C8: no duplication across repeated runs.  Over any sequence of attempts
\* and runs with overlapping fetch windows, the budget (server and local
\* copy) holds at most one transaction per source transaction id; a
\* successful attempt leaves on the server the union of what was there and
\* the records of the batch the engine did not report in result.errors, so
\* that importing data that is already there leaves the server budget
\* exactly as it was.
C8_NoDuplication ==
  /\ \A k \in DOMAIN Pool :
       /\ Cardinality(WithId(remote, Pool[k].id)) <= 1
       /\ Cardinality(WithId(local, Pool[k].id)) <= 1
  /\ (pc = "succeeded" /\ Count(calls, "import") = 1) =>
       /\ AsSet(remote) = AsSet(remoteAtStart) \cup Accepted(actualTransactions, result)
       /\ (AsSet(actualTransactions) \subseteq AsSet(remoteAtStart)) =>
            remote = remoteAtStart

C8_Witness ==
  /\ runs = 2
  /\ pc = "succeeded"
  /\ Count(calls, "import") = 1
  /\ Len(actualTransactions) = 2
  /\ AsSet(actualTransactions) \subseteq AsSet(remoteAtStart)
  /\ remote = remoteAtStart

\* C9 as stated: whenever an attempt ends in failure, whichever step failed,
\* the server budget is the same as when the attempt began.
C9_FailedAttemptLeavesNoTrace ==
  (pc = "failed") => remote = remoteAtStart

\* C9 as amended: an attempt that fails at ping, fetch, transform, creating
\* the data directory or connect, that is before the import is invoked,
\* leaves the server budget the same as when the attempt began.
C9_FailureBeforeImport ==
  (pc = "failed" /\ thrown.step \in {"ping", "fetch", "transform", "mkdir", "connect"}) =>
    /\ remote = remoteAtStart
    /\ Count(calls, "import") = 0
    /\ Count(calls, "disconnect") = 0

C9_Witness ==
  /\ pc = "failed"
  /\ thrown = DownloadError
  /\ attemptsStarted = 2
  /\ local # remote
  /\ remote = remoteAtStart

\* C10: final failure report.  After the last configured attempt has failed,
\* main emits one failure notification carrying the message of the error of
\* that last attempt and the number of attempts made; the process exits with
\* code 1 only after that notification, and the exit is not held back by
\* the outcome of the delivery.
C10_FinalFailureReport ==
  /\ (pc \in {"exit", "exited"} /\ attemptsStarted >= 1) =>
       /\ Kinds(notifications) = << "failure" >>
       /\ notifications[1].errorMessage = thrown.message
       /\ notifications[1].attempts = attemptsStarted
       /\ notifications[1].attempts = maxAttempts
  /\ (pc = "exhausted") => exitCode = NoExit
  /\ (exitCode # NoExit) =>
       (exitCode = 1 /\ pc = "exited" /\ Kinds(notifications) = << "failure" >>)
  /\ (pc = "exit") => ENABLED Exit

C10_Witness ==
  /\ pc = "exited"
  /\ exitCode = 1
  /\ attemptsStarted = 3
  /\ Kinds(notifications) = << "failure" >>
  /\ notifications[1].delivery = "network_error"
  /\ notifications[1].errorMessage = ShutdownError.message
  /\ notifications[1].attempts = 3

\* C11: one notification per run.  A run of main that has finished its
\* attempts has made exactly one notification call, after its last attempt:
\* none is made while attempts or sleeps are still under way.  That call
\* issues exactly one POST when a webhook is configured and none otherwise.
C11_OneNotificationPerRun ==
  /\ (pc \in {"returned", "exit", "exited"}) =>
       /\ Len(notifications) = 1
       /\ notifications[1].attempt >= attemptsStarted
       /\ Len(posts) = IF webhookUrl = Null THEN 0 ELSE 1
       /\ \A i \in DOMAIN posts : posts[i].url = webhookUrl
  /\ (pc \notin {"returned", "exit", "exited"}) =>
       /\ notifications = << >>
       /\ posts = << >>

C11_Witness ==
  /\ pc = "returned"
  /\ attemptsStarted = 3
  /\ Len(sleeps) = 2
  /\ Kinds(notifications) = << "success" >>
  /\ webhookUrl = Null
  /\ posts = << >>

\* C12: in the timer path a failure alert is emitted only for the final
\* failure of a tick.  A failure notification is made only by the invocation
\* that follows the last retry, and a tick whose maxRetryCount + 1
\* invocations have all failed has made exactly one failure notification,
\* which reports maxRetryCount + 1 = 4 attempts.
C12_TimerAlertsOnlyFinalFailure ==
  /\ \A i \in DOMAIN alerts : alerts[i].retry = maxRetryCount
  /\ (pc = "tick_failed") =>
       /\ Len(alerts) = 1
       /\ alerts[1].attempts = maxRetryCount + 1

\* C13: notification delivery failures are swallowed.  When the POST of a
\* notification gets a non-success status or rejects, the notify call
\* returns normally: after a successful attempt the run still ends as a
\* success (main has returned, no exit code, no further attempt, no failure
\* notification), and after the final failure the run still exits with 1.
C13_DeliveryFailureSwallowed ==
  \A i \in DOMAIN notifications :
    notifications[i].delivery \in {"http_error", "network_error"} =>
      /\ Len(notifications) = 1
      /\ Len(posts) = 1
      /\ (notifications[i].kind = "success") =>
           /\ pc = "returned"
           /\ exitCode = NoExit
           /\ attemptsStarted = notifications[i].attempt
      /\ (notifications[i].kind = "failure") =>
           /\ pc \in {"exit", "exited"}
           /\ (pc = "exited") => exitCode = 1

C13_Witness ==
  /\ pc = "returned"
  /\ attemptsStarted = 2
  /\ Len(notifications) = 1
  /\ notifications[1].kind = "success"
  /\ notifications[1].delivery = "network_error"
  /\ webhookUrl = DiscordUrl
  /\ Len(remote) > 0

\* C14: partial per-record import errors do not fail the attempt.  When the
\* engine's result has a non-empty errors array, importTransactions has
\* returned it (no exception is pending), the attempt goes on to disconnect
\* and fails only if the disconnect fails; when the disconnect succeeds the
\* attempt succeeds, main emits a success notification carrying that result
\* and runs no further attempt.
C14_PartialImportErrors ==
  (Len(apiResult.errors) > 0) =>
    /\ result = apiResult
    /\ pendingError = NoError
    /\ Count(calls, "import") = 1
    /\ \A i \in DOMAIN result.errors :
         /\ \E j \in DOMAIN actualTransactions :
              actualTransactions[j].imported_id = result.errors[i].imported_id
         /\ \A j \in DOMAIN result.added :
              result.added[j] # result.errors[i].imported_id
    /\ (pc \notin {"disconnect", "succeeded", "returned"}) => thrown = ShutdownError
    /\ (pc \in {"succeeded", "returned"}) =>
         /\ Count(calls, "disconnect") = 1
         /\ session = "Disconnected"
         /\ exitCode = NoExit
    /\ (pc = "succeeded") => notifications = << >>
    /\ (pc = "returned") =>
         /\ Kinds(notifications) = << "success" >>
         /\ notifications[1].result = result
         /\ notifications[1].attempt = attemptsStarted

C14_Witness ==
  /\ pc = "returned"
  /\ Len(result.errors) = 1
  /\ Len(result.added) = 1
  /\ attemptsStarted = 1
  /\ Kinds(notifications) = << "success" >>
  /\ Len(remote) = 1

\* the step of the current attempt that failed first: the import when its
\* exception is the one held while the finally block runs, else the step
\* called last
FirstFailedStep ==
  IF pendingError # NoError THEN pendingError.step ELSE calls[Len(calls)]

\* C15: exceptions propagate unmodified from executeSyncAttempt.  When an
\* attempt fails, the error it raises to its caller is the error of the step
\* that failed first; in particular it is the import error when the import
\* fails and the disconnect after it fails too.
C15_PropagatesFirstFailure ==
  (pc = "failed") =>
    /\ thrown # NoError
    /\ thrown.step = FirstFailedStep
    /\ (pendingError # NoError) => thrown = pendingError

\* the place of each step in the order executeSyncAttempt lists them
StepIndex ==
  [ ping |-> 1, fetch |-> 2, transform |-> 3, mkdir |-> 4, connect |-> 5,
    import |-> 6, disconnect |-> 7 ]

\* step b may be invoked right after step a: it is the next one in the
\* list, or the connect after the transform when the data directory exists
MayFollow(a, b) ==
  \/ StepIndex[b] = StepIndex[a] + 1
  \/ a = "transform" /\ b = "connect"

\* C16: each step of an attempt depends on the previous one succeeding.
\* Within one attempt the steps are invoked at most once each and only in
\* the order ping, fetch, transform, ensure data directory, connect, import,
\* disconnect, each one right after the step before it (the creation of the
\* data directory alone may be left out); when ping fails nothing else is
\* invoked, when the fetch fails no transform, connect or import is, and
\* when connect fails no import is.
C16_StepDependency ==
  /\ (calls # << >>) => calls[1] = "ping"
  /\ \A i \in 1..(Len(calls) - 1) : MayFollow(calls[i], calls[i + 1])
  /\ (calls # << >> /\ calls[Len(calls)] = "import") => session = "Connected"
  /\ (thrown.step = "ping") => calls = << "ping" >>
  /\ (thrown.step = "fetch") => calls = << "ping", "fetch" >>
  /\ (thrown.step = "connect") => calls[Len(calls)] = "connect"

C16_Witness ==
  /\ pc = "failed"
  /\ thrown = InitError
  /\ attemptsStarted = 2
  /\ calls = << "ping", "fetch", "transform", "mkdir", "connect" >>
  /\ session = "Disconnected"

\* the data arrays of the first n pages of a result set, one after the other
RECURSIVE ConcatPages(_, _)
ConcatPages(ps, n) ==
  IF n = 0 THEN << >> ELSE ConcatPages(ps, n - 1) \o ps[n]

\* C17: pagination concatenation.  For a result set of n >= 1 pages in which
\* each page but the last carries a next link, a fetchTransactions that
\* returns has issued exactly n requests, the first to the url with the
\* filters and each later one to the next link of the response before it,
\* and returns the data arrays of the pages one after the other in response
\* order, nothing dropped, duplicated or reordered.
C17_PaginationConcatenation ==
  (pc = "fetched") =>
    /\ Len(requests) = Len(pages)
    /\ pageCount = Len(pages)
    /\ requests[1] = FirstUrl
    /\ \A k \in 2..Len(requests) :
         requests[k] = ResponseNext(k - 1).url
    /\ upTransactions = ConcatPages(pages, Len(pages))

\* pages [A] then [B] give [A, B] after exactly two requests
C17_Witness ==
  /\ pc = "fetched"
  /\ pages = << << SourceTxn(2) >>, << SourceTxn(1) >> >>
  /\ upTransactions = << SourceTxn(2), SourceTxn(1) >>
  /\ Len(requests) = 2

\* C18: pagination is strictly sequential.  At most one page request is in
\* flight at any time; the request for page k + 1 is issued only when the
\* response for page k has arrived and its records have been appended.
C18_SequentialPagination ==
  /\ inFlight \in {0, 1}
  /\ (inFlight = 1) <=> (pc = "f_await")
  /\ \A k \in DOMAIN requests : requests[k].page = k
  /\ (pc = "f_await") =>
       allTransactions = ConcatPages(pages, Len(requests) - 1)
  /\ (pc \in {"f_loop", "fetched"}) =>
       allTransactions = ConcatPages(pages, Len(requests))

C18_Witness ==
  /\ pc = "f_await"
  /\ Len(requests) = 3
  /\ inFlight = 1
  /\ Len(allTransactions) = 3

\* the text w occurs in the text m
Contains(m, w) ==
  \E i \in 1..(Len(m) - Len(w) + 1) : SubSeq(m, i, i + Len(w) - 1) = w

\* the message of an error speaks of rate limiting
IndicatesRateLimit(m) ==
  Contains(m, "rate limit") \/ Contains(m, "Rate limit")

\* C19: rate-limit signaling.  Every HTTP 429 response, to ping or to a
\* page request of the fetch, surfaces as an error whose message indicates
\* rate limiting and which differs from the error of every other
\* non-success status.
C19_RateLimitSignalled ==
  \A k \in DOMAIN hist :
    (hist[k].arg.status = 429) =>
      /\ hist[k].ret # NoError
      /\ IndicatesRateLimit(hist[k].ret.message)
      /\ \A j \in DOMAIN hist :
           (hist[j].arg.status # 429 /\ ~IsOk(hist[j].arg.status)) =>
             hist[j].ret # hist[k].ret

\* C20: every non-success status other than 429 makes ping and
\* fetchTransactions raise an error that carries the status code, the
\* provider's first error detail when the body supplies one and the text
\* 'Unknown error' when the body has no detail or is not parseable; no such
\* response is taken for a success.
C20_GenericHttpError ==
  \A k \in DOMAIN hist :
    LET call == hist[k].arg
        ret == hist[k].ret IN
    (~IsOk(call.status) /\ call.status # 429) =>
      /\ ret # NoError
      /\ ret.step = call.op
      /\ Contains(ret.message, "HTTP " \o ToString(call.status))
      /\ IF call.body.parseable /\ call.body.detail \notin {Null, ""}
           THEN Contains(ret.message, call.body.detail)
           ELSE Contains(ret.message, "Unknown error")

C20_Witness ==
  /\ Len(hist) = 2
  /\ hist[1].arg = [op |-> "ping", status |-> 401,
                    body |-> [parseable |-> TRUE, detail |-> "Not authorized"]]
  /\ hist[1].ret.message = "Up Bank API ping failed: HTTP 401 - Not authorized"
  /\ hist[2].arg = [op |-> "fetch", status |-> 500,
                    body |-> [parseable |-> FALSE, detail |-> Null]]
  /\ hist[2].ret.message = "Up Bank API error: HTTP 500 - Unknown error"

\* the positions of executeSyncAttempt: an attempt is in flight
AttemptStages ==
  {"ping", "fetch", "transform", "mkdir", "init", "download", "import",
   "disconnect"}

\* C21: attempts execute strictly sequentially.  While an attempt is in
\* flight it is the only one: it is attempt number `attempt`, every earlier
\* attempt has been followed by its sleep, and no failure of it is pending.
\* Attempt k + 1 is about to start only when attempt k has failed with its
\* disconnect done (when it had imported) and the backoff sleep after it,
\* of getBackoffDelay(k - 1) ms, has been slept in full.
C21_SequentialAttempts ==
  /\ (pc \in AttemptStages) =>
       /\ attempt = attemptsStarted
       /\ Len(sleeps) = attemptsStarted - 1
       /\ thrown = NoError
  /\ (pc = "loop" /\ attemptsStarted >= 1 /\ LoopContinues(attempt, maxAttempts)) =>
       /\ thrown # NoError
       /\ attempt = attemptsStarted + 1
       /\ Len(sleeps) = attemptsStarted
       /\ sleeps[attemptsStarted] =
            [after |-> attemptsStarted, ms |-> getBackoffDelay(attemptsStarted - 1)]
       /\ (\E i \in DOMAIN calls : calls[i] = "import") =>
            calls[Len(calls)] = "disconnect"

C21_Witness ==
  /\ pc = "import"
  /\ attemptsStarted = 3
  /\ Len(sleeps) = 2
  /\ sleeps[2].ms = 900000
  /\ lastError = ShutdownError

\* C22: configuration validation.  When one or more of the five required
\* variables is unset or empty, validateConfig raises one error whose
\* message names every missing variable and main is not started; when all
\* five are set it raises nothing and main is started.
C22_ValidateConfigRaises ==
  \A k \in DOMAIN hist :
    LET env == hist[k].arg
        ret == hist[k].ret
        missing == {i \in DOMAIN REQUIRED_VARS : IsMissing(env, i)} IN
    IF missing # {}
      THEN /\ ret.thrown # NoError
           /\ \A i \in missing : Contains(ret.thrown.message, REQUIRED_VARS[i])
           /\ ~hist[k].mainStarted
      ELSE /\ ret.thrown = NoError
           /\ ret.exitCode = NoExit
           /\ hist[k].mainStarted

\* C23: importTransactions on an empty list returns the zeroed result,
\* leaves the budget alone and makes no call to the destination API; on a
\* non-empty list it makes exactly one call, for the configured account id
\* and with the whole batch in input order, and returns the result of the
\* destination as it is.
C23_ImportBatch ==
  \A k \in DOMAIN hist :
    LET in == hist[k].arg
        out == hist[k].ret IN
    IF in.transactions = << >>
      THEN /\ out.result = [errors |-> << >>, added |-> << >>, updated |-> << >>]
           /\ out.budget = in.budget
           /\ hist[k].apiCalls = << >>
      ELSE /\ Len(hist[k].apiCalls) = 1
           /\ hist[k].apiCalls[1].accountId = AccountId
           /\ hist[k].apiCalls[1].transactions = in.transactions
           /\ out = ApiImportTransactions(in.budget, in.transactions, in.rejected,
                                          EmptyResult)

C23_Witness ==
  /\ Len(hist) = 1
  /\ Len(hist[1].arg.transactions) = 2
  /\ hist[1].arg.transactions[1].imported_id = "txn_2"
  /\ Len(hist[1].apiCalls) = 1
  /\ hist[1].apiCalls[1].transactions[1].imported_id = "txn_2"
  /\ Len(hist[1].ret.result.errors) = 1
  /\ Len(hist[1].ret.result.added) = 1

\* C24: on the same script of source and destination behaviour the attempt
\* of the manual entry point and the attempt of the scheduled entry point
\* make the same calls in the same order and end with the same result or
\* the same error.
C24_SameAttemptForBothCallers ==
  \A k \in DOMAIN hist :
    /\ hist[k].manual.calls = hist[k].scheduled.calls
    /\ hist[k].manual.thrown = hist[k].scheduled.thrown
    /\ hist[k].manual.result = hist[k].scheduled.result
    /\ hist[k].manual.fetchedCount = hist[k].scheduled.fetchedCount

\* C25: transformTransactions gives one record per source record, in input
\* order; the imported_id of each is the id of its source record unchanged,
\* so records with distinct source ids get distinct imported_ids.
C25_ImportedIdInjective ==
  \A k \in DOMAIN hist :
    LET in == hist[k].arg
        out == hist[k].ret IN
      /\ Len(out) = Len(in)
      /\ \A i \in DOMAIN in : out[i].imported_id = in[i].id
      /\ \A i, j \in DOMAIN in :
           in[i].id # in[j].id => out[i].imported_id # out[j].imported_id

C25_Witness ==
  /\ Len(hist) = 1
  /\ Len(hist[1].arg) = 3
  /\ hist[1].arg[1].id # hist[1].arg[2].id
  /\ hist[1].arg[1].description = hist[1].arg[2].description
  /\ hist[1].ret[1].imported_id = hist[1].arg[1].id
  /\ hist[1].ret[1].imported_id # hist[1].ret[2].imported_id
  /\ hist[1].arg[3].id = hist[1].arg[1].id

\* C26: the amount of the transformed record is valueInBaseUnits exactly,
\* for every signed integer, and the decorated string `value` has no part
\* in the output: any other string gives the same record.
C26_AmountExact ==
  \A k \in DOMAIN hist :
    /\ hist[k].ret.amount = hist[k].arg.valueInBaseUnits
    /\ \A v \in {"-0.01", "3500.00", "0.00", "not a number"} :
         transformTransaction([hist[k].arg EXCEPT !.value = v]).amount
           = hist[k].arg.valueInBaseUnits

C26_Witness ==
  /\ Len(hist) = 1
  /\ hist[1].arg.valueInBaseUnits = 0 - 1
  /\ hist[1].arg.value = "-0.01"
  /\ hist[1].ret.amount = 0 - 1

\* C27: the date of the transformed record is the first 10 characters of
\* createdAt, whatever the offset: 2026-01-26T04:51:32+11:00 gives
\* 2026-01-26 and 2025-12-31T23:00:00-05:00 gives 2025-12-31.
C27_DateIsPrefix ==
  \A k \in DOMAIN hist :
    LET at == hist[k].arg.createdAt
        date == hist[k].ret.date IN
      /\ Len(date) = 10
      /\ \A i \in 1..10 : date[i] = at[i]
      /\ at = Stamp1 => date = << "2","0","2","6","-","0","1","-","2","6" >>
      /\ at = Stamp2 => date = << "2","0","2","5","-","1","2","-","3","1" >>

C27_Witness ==
  /\ Len(hist) = 1
  /\ hist[1].arg.createdAt = Stamp2
  /\ hist[1].ret.date = << "2","0","2","5","-","1","2","-","3","1" >>

\* C28: the transformed record has exactly the fields imported_id,
\* payee_name, amount, date, notes and cleared; payee_name is the source
\* description; notes is the source message when there is one and null when
\* the message is null or empty; cleared is true.
C28_SixFields ==
  \A k \in DOMAIN hist :
    LET in == hist[k].arg
        out == hist[k].ret IN
      /\ DOMAIN out = {"imported_id", "payee_name", "amount", "date", "notes",
                       "cleared"}
      /\ out.payee_name = in.description
      /\ in.message \notin {Null, ""} => out.notes = in.message
      /\ in.message \in {Null, ""} => out.notes = Null
      /\ out.cleared = TRUE

C28_Witness ==
  /\ Len(hist) = 1
  /\ hist[1].arg.message = ""
  /\ hist[1].ret.notes = Null
  /\ hist[1].ret.payee_name = "Woolworths"
  /\ hist[1].ret.cleared

\* C29: transformTransactions returns a list as long as its input whose
\* i-th record is transformTransaction of the i-th input, the empty list
\* for the empty input; the summary it logs counts the returned records and
\* the input is the same after the call.
C29_BatchIsMap ==
  \A k \in DOMAIN hist :
    LET in == hist[k].arg
        out == hist[k].ret IN
      /\ Len(out) = Len(in)
      /\ \A i \in DOMAIN in : out[i] = transformTransaction(in[i])
      /\ in = << >> => out = << >>
      /\ hist[k].logged.total = Len(out)
      /\ arg = in

C29_Witness ==
  /\ Len(hist) = 1
  /\ Len(hist[1].ret) = 3
  /\ hist[1].logged.incoming = 1
  /\ hist[1].logged.outgoing = 2
  /\ hist[1].logged.outgoingTotal = "$-119.96"
  /\ hist[1].ret[2].amount > 0

\* C30: the first call of connect() is init with the configured data
\* directory, server URL and password; downloadBudget is called second,
\* only once init has completed, for the configured sync id; its options
\* are {password: secret} exactly when ACTUAL_E2E_PASSWORD is set to a
\* non-empty secret and undefined otherwise, never an empty password.
C30_ConnectCalls ==
  /\ Len(hist) <= 2
  /\ Len(hist) >= 1 =>
       /\ hist[1].fn = "init"
       /\ hist[1].serverURL = arg.ACTUAL_SERVER_URL
       /\ hist[1].password = arg.ACTUAL_PASSWORD
       /\ hist[1].dataDir = IF arg.ACTUAL_DATA_DIR \in {Null, ""}
                              THEN "./actual-data" ELSE arg.ACTUAL_DATA_DIR
  /\ Len(hist) = 2 =>
       /\ hist[2].fn = "downloadBudget"
       /\ hist[2].syncId = arg.ACTUAL_SYNC_ID
       /\ hist[2].options =
            IF arg.ACTUAL_E2E_PASSWORD \in {Null, ""}
              THEN [ kind |-> "undefined" ]
              ELSE [ kind |-> "object", password |-> arg.ACTUAL_E2E_PASSWORD ]
       /\ thrown # InitError
  /\ pc = "c_done" => Len(hist) = 2
  /\ (pc = "c_failed" /\ thrown = InitError) => Len(hist) = 1

C30_Witness ==
  /\ pc = "c_done"
  /\ arg.ACTUAL_E2E_PASSWORD = ""
  /\ hist[2].options = [ kind |-> "undefined" ]
  /\ hist[1].dataDir = "/tmp/actual-data"

\* C31: the config object and its sections up, actual and sync are frozen
\* after load, so no assignment to a configuration field, top-level or
\* nested, changes the configuration.
C31_ConfigReadOnly ==
  \A k \in DOMAIN hist :
    /\ hist[k].before.frozen[hist[k].write.object]
    /\ hist[k].after = hist[k].before

C33_AttemptStartsFresh ==
  (pc = "ping") =>
    /\ upTransactions = << >>
    /\ actualTransactions = << >>
    /\ result = EmptyResult
    /\ fetchedCount = 0
    /\ pendingError = NoError
    /\ calls = << >>
    /\ session = "Disconnected"

C35_ShutdownAfterInit ==
  (AttemptEnded /\ Count(calls, "connect") = 1 /\ thrown # InitError) =>
    /\ Count(calls, "disconnect") = 1
    /\ session = "Disconnected"

\* C36: for every value of MAX_RETRIES, a failure notification is emitted
\* only after at least one attempt, and the attempts it reports are the
\* attempts that were made.
C36_AtLeastOneAttempt ==
  \A i \in DOMAIN notifications :
    notifications[i].kind = "failure" =>
      /\ attemptsStarted >= 1
      /\ notifications[i].attempts = attemptsStarted

\* C37: the fetch is all or nothing.  While pages are being requested
\* nothing has been returned; fetchTransactions returns only once every
\* page of the result set was received, and then all their records; when a
\* page request fails, the first or a later one, the attempt ends with that
\* error, no record of the pages already received is returned, and there is
\* no transform, no connect and no import.
C37_FetchAllOrNothing ==
  /\ pc \in {"f_start", "f_loop", "f_await"} => upTransactions = << >>
  /\ pc \in {"fetched", "transform"} =>
       /\ pageCount = Len(pages)
       /\ upTransactions = ConcatPages(pages, Len(pages))
  /\ (pc = "failed" /\ thrown \in FetchErrors) =>
       /\ upTransactions = << >>
       /\ actualTransactions = << >>
       /\ calls = << "ping", "fetch" >>
       /\ session = "Disconnected"
       /\ local = << >>
  /\ Len(upTransactions) > 0 => pageCount = Len(pages)

C37_Witness ==
  /\ pc = "failed"
  /\ thrown \in FetchErrors
  /\ pageCount = 2
  /\ Len(allTransactions) > 0
  /\ upTransactions = << >>

\* C38: fetchTransactions terminates.  With a finite chain of next links and
\* every request resolving, it eventually returns or throws; it makes at
\* most one request per page, page k being the k-th request, and a request
\* is issued only while there is a url to follow and no response has failed:
\* none after a response whose links.next is null or absent.
C38_FetchTerminates ==
  /\ <>(pc \in {"fetched", "failed"})
  /\ [](/\ Len(requests) <= Len(pages)
        /\ pageCount = Len(requests)
        /\ \A k \in DOMAIN requests : requests[k].page = k)
  /\ [][ Len(requests') > Len(requests) =>
           /\ url # NoUrl
           /\ thrown = NoError
           /\ Len(requests') = Len(requests) + 1
           /\ (Len(requests) > 0 => allTransactions
                                      = ConcatPages(pages, Len(requests))) ]_vars

C38_Witness ==
  /\ pc = "fetched"
  /\ lastLink = "absent"
  /\ Len(pages) = 3
  /\ Len(requests) = 3
  /\ url = NoUrl

\* C39: a run terminates.  With every attempt terminating, main ends after
\* at most maxAttempts attempts and maxAttempts - 1 sleeps, in one of two
\* ways: it returns after a success notification, or the process exits with
\* code 1 after a failure notification.
C39_RunTerminates ==
  /\ <>(pc \in {"returned", "exited"})
  /\ [](pc # "start" =>
          /\ attemptsStarted <= maxAttempts
          /\ Len(sleeps) <= maxAttempts - 1)
  /\ [](pc = "returned" =>
          (exitCode = NoExit /\ Kinds(notifications) = << "success" >>))
  /\ [](pc = "exited" =>
          (exitCode = 1 /\ Kinds(notifications) = << "failure" >>))

\* C40: a success notification is emitted only for an attempt that fetched
\* nothing, or in which connect, import and disconnect were all called and
\* none threw; never for an attempt whose disconnect failed.  The
\* fetchedCount it reports is the number of records fetched, which is the
\* number of records handed to the import.
C40_SuccessOnlyForSuccess ==
  \A i \in DOMAIN notifications :
    notifications[i].kind = "success" =>
      /\ thrown = NoError
      /\ pendingError = NoError
      /\ notifications[i].fetchedCount = Len(upTransactions)
      /\ notifications[i].result = result
      /\ \/ /\ Len(upTransactions) = 0
            /\ calls = << "ping", "fetch" >>
         \/ /\ Len(upTransactions) > 0
            /\ Len(actualTransactions) = notifications[i].fetchedCount
            /\ SubSeq(calls, Len(calls) - 2, Len(calls))
                 = << "connect", "import", "disconnect" >>
            /\ SubSeq(calls, 1, 3) = << "ping", "fetch", "transform" >>
            /\ Len(calls) \in {6, 7}
            /\ session = "Disconnected"
            /\ result = apiResult

C40_Witness ==
  /\ pc = "returned"
  /\ Len(notifications) = 1
  /\ notifications[1].kind = "success"
  /\ notifications[1].fetchedCount = 2
  /\ Len(notifications[1].result.errors) = 1
  /\ attemptsStarted = 2
  /\ lastError = ShutdownError

====
